---- MODULE Spec2Model ----
(***************************************************************************)
(* Model of the ai-agent-hub LMTP receiving side: the per-connection       *)
(* session loop of LMTPServer._handle_client, the message pipeline of      *)
(* LMTPServer._process_message with the helpers it calls (MIME parse,      *)
(* agent-id extraction, body extraction, Envelope construction,            *)
(* save_envelope) and the queue directory they write to.                   *)
(*                                                                         *)
(* Bytes and characters are tokens: a printable ASCII character is the     *)
(* one-character string, "CR" "LF" "SP" "TAB" are the control characters,  *)
(* "xE9" is a byte above 0x7F and "REPL" is U+FFFD.  A line, a header      *)
(* value and a payload text are sequences of tokens.                       *)
(***************************************************************************)
EXTENDS Integers, Sequences, FiniteSets, TLC

(***************************************************************************)
(* Bounds of the model.                                                    *)
(***************************************************************************)
MaxLines == 5
MaxData == 2
MaxClock == 1
MaxUuid == 4

\* lines a connection reads when connections run side by side
MaxConcLines == 3

\* the number of files in the queue directory of the worker
MaxQueue == 2

\* the number of calls of process_next_envelope
MaxCalls == 3

\* the number of pieces of a From header value
MaxChunks == 3

Conns == 1..2

(***************************************************************************)
(* Byte strings used as input lines and as literals of the code.           *)
(***************************************************************************)
L_LHLO ==
    <<"L", "H", "L", "O", "SP", "x", "CR", "LF">>
L_MAIL ==
    <<"M", "A", "I", "L", "SP", "F", "R", "O", "M", ":", "<", "a", ">", "CR", "LF">>
L_RCPT ==
    <<"R", "C", "P", "T", "SP", "T", "O", ":", "<", "b", ">", "CR", "LF">>
L_DATA ==
    <<"D", "A", "T", "A", "CR", "LF">>
L_data ==
    <<"SP", "d", "a", "t", "a", "SP", "LF">>
L_QUIT ==
    <<"Q", "U", "I", "T", "CR", "LF">>
L_NOOP ==
    <<"N", "O", "O", "P", "CR", "LF">>
L_DOT_CRLF ==
    <<".", "CR", "LF">>
L_DOT_LF ==
    <<".", "LF">>
L_DOT_EOF ==
    <<".">>
L_DOTDOT ==
    <<".", ".", "CR", "LF">>
L_DOTDOT_HI ==
    <<".", ".", "h", "i", "CR", "LF">>
L_FROM ==
    <<"F", "r", "o", "m", ":", "SP", "A", "SP", "<", "h", "t", "t", "p", "s", ":", "/", "/", "a", "/", "@", "b", ">", "CR", "LF">>
L_TO ==
    <<"T", "o", ":", "SP", "<", "h", "t", "t", "p", ":", "/", "/", "c", "/", "@", "d", ">", "CR", "LF">>
L_FROM_8BIT ==
    <<"F", "r", "o", "m", ":", "SP", "xE9", "CR", "LF">>
L_BLANK ==
    <<"CR", "LF">>
L_HI ==
    <<"h", "i", "CR", "LF">>
\* a text body that is a JSON object
L_JSON ==
    <<"{", "\"", "c", "o", "n", "t", "e", "x", "t", "\"", ":", "\"", "c", "1", "\"", ",", "\"", "p", "a", "y", "l", "o", "a", "d", "\"", ":", "\"", "p", "\"", "}", "CR", "LF">>
S_LHLO ==
    <<"L", "H", "L", "O">>
S_MAIL_FROM ==
    <<"M", "A", "I", "L", "SP", "F", "R", "O", "M", ":">>
S_RCPT_TO ==
    <<"R", "C", "P", "T", "SP", "T", "O", ":">>
S_DATA ==
    <<"D", "A", "T", "A">>
S_QUIT ==
    <<"Q", "U", "I", "T">>
S_HTTP ==
    <<"h", "t", "t", "p">>
S_SLASHES ==
    <<":", "/", "/">>
S_SLASH_AT ==
    <<"/", "@">>
UNKNOWN_AGENT ==
    <<"h", "t", "t", "p", "s", ":", "/", "/", "u", "n", "k", "n", "o", "w", "n", "/", "@", "u", "n", "k", "n", "o", "w", "n">>
S_FROM ==
    <<"f", "r", "o", "m">>
S_TO ==
    <<"t", "o">>
ISO_PREFIX ==
    <<"2", "0", "2", "6", "-", "1", "1", "-", "0", "3", "T", "1", "0", ":", "1", "5", ":", "0">>
UTC_OFFSET ==
    <<"+", "0", "0", ":", "0", "0">>
STAMP_PREFIX ==
    <<"2", "0", "2", "6", "1", "1", "0", "3", "T", "1", "0", "1", "5", "0">>
LowerToUpper ==
    [a |-> "A", b |-> "B", c |-> "C", d |-> "D", e |-> "E", f |-> "F", g |-> "G", h |-> "H", i |-> "I", j |-> "J", k |-> "K", l |-> "L", m |-> "M", n |-> "N", o |-> "O", p |-> "P", q |-> "Q", r |-> "R", s |-> "S", t |-> "T", u |-> "U", v |-> "V", w |-> "W", x |-> "X", y |-> "Y", z |-> "Z"]
UpperToLower ==
    [A |-> "a", B |-> "b", C |-> "c", D |-> "d", E |-> "e", F |-> "f", G |-> "g", H |-> "h", I |-> "i", J |-> "j", K |-> "k", L |-> "l", M |-> "m", N |-> "n", O |-> "o", P |-> "p", Q |-> "q", R |-> "r", S |-> "s", T |-> "t", U |-> "u", V |-> "v", W |-> "w", X |-> "x", Y |-> "y", Z |-> "z"]
Letters ==
    {"a", "b", "c", "d", "e", "f", "g", "h", "i", "j", "k", "l", "m", "n", "o", "p", "q", "r", "s", "t", "u", "v", "w", "x", "y", "z", "A", "B", "C", "D", "E", "F", "G", "H", "I", "J", "K", "L", "M", "N", "O", "P", "Q", "R", "S", "T", "U", "V", "W", "X", "Y", "Z"}
Digits ==
    {"0", "1", "2", "3", "4", "5", "6", "7", "8", "9"}

\* a valid agent id and one without the "@"
S_AGENT_A ==
    <<"h", "t", "t", "p", "s", ":", "/", "/", "h", "/", "@", "w">>

S_AGENT_BAD ==
    <<"h", "t", "t", "p", "s", ":", "/", "/", "h", "/", "w">>

(***************************************************************************)
(* Python string and bytes primitives.                                     *)
(***************************************************************************)
WS == {"SP", "CR", "LF", "TAB"}

None == [some |-> FALSE, val |-> <<>>]

Some(v) == [some |-> TRUE, val |-> v]

Drop(s, n) == SubSeq(s, n + 1, Len(s))

StartsWith(s, p) == Len(s) >= Len(p) /\ SubSeq(s, 1, Len(p)) = p

\* s[i:].startswith(lit)
HasAt(s, i, lit) ==
    i + Len(lit) - 1 <= Len(s) /\ SubSeq(s, i, i + Len(lit) - 1) = lit

RECURSIVE LStrip(_)
LStrip(s) ==
    IF s # <<>> /\ Head(s) \in WS THEN LStrip(Tail(s)) ELSE s

RECURSIVE RStrip(_)
RStrip(s) ==
    IF s # <<>> /\ s[Len(s)] \in WS THEN RStrip(SubSeq(s, 1, Len(s) - 1)) ELSE s

Strip(s) == RStrip(LStrip(s))

Upper(s) ==
    [i \in 1..Len(s) |->
        IF s[i] \in DOMAIN LowerToUpper THEN LowerToUpper[s[i]] ELSE s[i]]

Lower(s) ==
    [i \in 1..Len(s) |->
        IF s[i] \in DOMAIN UpperToLower THEN UpperToLower[s[i]] ELSE s[i]]

\* bytes.decode(errors="replace"): a byte that is not valid UTF-8 becomes U+FFFD
Decode(b) ==
    [i \in 1..Len(b) |-> IF b[i] = "xE9" THEN "REPL" ELSE b[i]]

\* b"".join(parts)
RECURSIVE Join(_)
Join(parts) ==
    IF parts = <<>> THEN <<>>
    ELSE IF Len(parts) = 1 THEN parts[1]
    ELSE Join(SubSeq(parts, 1, Len(parts) \div 2))
             \o Join(SubSeq(parts, Len(parts) \div 2 + 1, Len(parts)))

\* index of the first occurrence of ch in s, 0 when absent
RECURSIVE FindFrom(_, _, _)
FindFrom(s, ch, i) ==
    IF i > Len(s) THEN 0
    ELSE IF s[i] = ch THEN i
    ELSE FindFrom(s, ch, i + 1)

Find(s, ch) == FindFrom(s, ch, 1)

(***************************************************************************)
(* email.message_from_bytes, as far as the pipeline reads its result: the  *)
(* header block, the From and To headers, the body of a message that is    *)
(* not multipart.  No input line of the model declares a multipart         *)
(* Content-Type or a Content-Transfer-Encoding, and none is a Unix-From    *)
(* line, so the parsed message is never multipart and its body is the raw  *)
(* bytes after the header block.                                           *)
(***************************************************************************)
\* bytes that can not be part of a header name: outside \041-\176
NonHeaderNameBytes == {"SP", "CR", "LF", "TAB", "xE9"}

\* end of the line that starts at i: the index of its last byte
LineEnd(b, i) ==
    LET ends == {j \in i..(Len(b) - 1) : b[j] \in {"CR", "LF"}}
        j == CHOOSE j \in ends : \A k \in ends : j <= k
    IN  IF ends = {} THEN Len(b)
        ELSE IF b[j] = "CR" /\ b[j + 1] = "LF" THEN j + 1 ELSE j

\* the lines of a byte string, line endings kept
RECURSIVE SplitLines(_)
SplitLines(b) ==
    IF b = <<>> THEN <<>>
    ELSE LET e == LineEnd(b, 1)
         IN  <<SubSeq(b, 1, e)>> \o SplitLines(Drop(b, e))

\* feedparser.headerRE: ^(From |[\041-\071\073-\176]*:|[\t ])
RECURSIVE NameThenColon(_, _)
NameThenColon(line, i) ==
    IF i > Len(line) THEN FALSE
    ELSE IF line[i] = ":" THEN TRUE
    ELSE IF line[i] \in NonHeaderNameBytes THEN FALSE
    ELSE NameThenColon(line, i + 1)

IsContinuation(line) == line # <<>> /\ line[1] \in {"SP", "TAB"}

IsUnixFrom(line) == StartsWith(line, <<"F", "r", "o", "m", "SP">>)

IsHeaderLine(line) ==
    IsUnixFrom(line) \/ NameThenColon(line, 1) \/ IsContinuation(line)

\* feedparser.NLCRE.match: the line starts with a line ending
IsBlankLine(line) == line # <<>> /\ line[1] \in {"CR", "LF"}

\* number of leading lines that belong to the header block
RECURSIVE HeaderCount(_)
HeaderCount(lines) ==
    IF lines = <<>> \/ ~IsHeaderLine(Head(lines)) THEN 0
    ELSE 1 + HeaderCount(Tail(lines))

RECURSIVE RStripEol(_)
RStripEol(s) ==
    IF s # <<>> /\ s[Len(s)] \in {"CR", "LF"}
    THEN RStripEol(SubSeq(s, 1, Len(s) - 1)) ELSE s

RECURSIVE LStripBlank(_)
LStripBlank(s) ==
    IF s # <<>> /\ Head(s) \in {"SP", "TAB"} THEN LStripBlank(Tail(s)) ELSE s

\* feedparser._parse_headers: acc is the list of (name, source) pairs so far,
\* a continuation line is appended to the source of the last header
RECURSIVE ParseHeaders(_, _)
ParseHeaders(lines, acc) ==
    IF lines = <<>> THEN acc
    ELSE LET line == Head(lines)
             i == Find(line, ":")
         IN  IF IsContinuation(line)
             THEN IF acc = <<>> THEN ParseHeaders(Tail(lines), acc)
                  ELSE ParseHeaders(Tail(lines),
                           [acc EXCEPT ![Len(acc)].src = @ \o line])
             ELSE IF IsUnixFrom(line) \/ i <= 1
             THEN ParseHeaders(Tail(lines), acc)
             ELSE ParseHeaders(Tail(lines),
                      Append(acc, [name |-> SubSeq(line, 1, i - 1),
                                   src |-> Drop(line, i)]))

\* compat32 header_source_parse: value.lstrip(' \t') ... .rstrip('\r\n')
HeaderValue(h) == RStripEol(LStripBlank(h.src))

\* the parsed headers as (name, value) pairs
HeaderList(hs) ==
    [k \in 1..Len(hs) |-> [name |-> hs[k].name, value |-> HeaderValue(hs[k])]]

\* 1 when the line after the n header lines is the blank separator line
SepCount(lines, n) ==
    IF n < Len(lines) /\ IsBlankLine(lines[n + 1]) THEN 1 ELSE 0

\* the message whose first n lines are its header block
MakeMessage(lines, n) ==
    [headers |-> HeaderList(ParseHeaders(SubSeq(lines, 1, n), <<>>)),
     multipart |-> FALSE,
     parts |-> <<>>,
     body |-> Join(Drop(lines, n + SepCount(lines, n)))]

ParseLines(lines) == MakeMessage(lines, HeaderCount(lines))

message_from_bytes(raw_bytes) == ParseLines(SplitLines(raw_bytes))

\* Message.get(name): the first header of that name, case-insensitively;
\* compat32 returns a Header object, not a str, for a value with 8-bit bytes
HeaderResult(v) ==
    IF \E j \in 1..Len(v) : v[j] = "xE9"
    THEN [kind |-> "Header", val |-> v]
    ELSE [kind |-> "str", val |-> v]

\* the first header whose index is in hit
FirstHeader(msg, hit) ==
    IF hit = {} THEN [kind |-> "None", val |-> <<>>]
    ELSE HeaderResult(msg.headers[CHOOSE x \in hit : \A y \in hit : x <= y].value)

MsgGet(msg, name) ==
    FirstHeader(msg, {k \in 1..Len(msg.headers) : Lower(msg.headers[k].name) = name})

(***************************************************************************)
(* Time.  The clock counts the seconds of one minute; a datetime is the    *)
(* second and its tzinfo ("UTC" or "naive").                               *)
(***************************************************************************)
DigitChar(n) == <<"0", "1", "2", "3", "4", "5", "6", "7", "8", "9">>[n + 1]

\* datetime.isoformat()
isoformat(dt) ==
    ISO_PREFIX \o <<DigitChar(dt.sec)>>
        \o (IF dt.tz = "UTC" THEN UTC_OFFSET ELSE <<>>)

\* datetime.fromisoformat(text): raised is ValueError
fromisoformat(text) ==
    LET n == Len(ISO_PREFIX)
        secs == {k \in 0..9 : HasAt(text, n + 1, <<DigitChar(k)>>)}
        rest == Drop(text, n + 1)
    IN  IF ~StartsWith(text, ISO_PREFIX) \/ secs = {}
            \/ rest \notin {<<>>, UTC_OFFSET}
        THEN [raised |-> TRUE, dt |-> [sec |-> 0, tz |-> "naive"]]
        ELSE [raised |-> FALSE,
              dt |-> [sec |-> CHOOSE k \in secs : TRUE,
                      tz |-> IF rest = <<>> THEN "naive" ELSE "UTC"]]

\* created_at.astimezone(timezone.utc).strftime("%Y%m%dT%H%M%SZ")
strftime(dt) == STAMP_PREFIX \o <<DigitChar(dt.sec)>> \o <<"Z">>

\* datetime.now(timezone.utc) when the clock shows t
UtcNow(t) == [sec |-> t, tz |-> "UTC"]

(***************************************************************************)
(* lmtp_handler: agent-id extraction and body extraction.  A result that   *)
(* may be an exception is a record whose field raised tells which.         *)
(***************************************************************************)
HostChars == Letters \cup Digits \cup {".", "-"}

NameChars == Letters \cup Digits \cup {"_", ".", "-"}

RegexSpace == {"SP", "TAB", "CR", "LF"}

\* first index >= i whose character is outside cls (Len(s)+1 when none)
RECURSIVE RunEnd(_, _, _)
RunEnd(s, i, cls) ==
    IF i > Len(s) \/ s[i] \notin cls THEN i ELSE RunEnd(s, i + 1, cls)

\* index after "http" and an optional "s" at i, 0 when s has no "http" at i
AfterScheme(s, i) ==
    IF ~HasAt(s, i, S_HTTP) THEN 0
    ELSE IF HasAt(s, i + 4, <<"s">>) THEN i + 5 ELSE i + 4

\* re `https?\s*:\s*//` at i: index after the match, 0 when there is none
RepairMatchEnd(s, i) ==
    LET a == AfterScheme(s, i)
        c == RunEnd(s, a, RegexSpace)
        d == RunEnd(s, c + 1, RegexSpace)
    IN  IF a = 0 THEN 0
        ELSE IF ~HasAt(s, c, <<":">>) THEN 0
        ELSE IF ~HasAt(s, d, <<"/", "/">>) THEN 0
        ELSE d + 2

RemoveSpaces(s) == SelectSeq(s, LAMBDA ch : ch # "SP")

\* re.sub(r"https?\s*:\s*//", lambda m: m.group(0).replace(" ", ""), s)
RECURSIVE RepairScheme(_, _)
RepairScheme(s, i) ==
    IF i > Len(s) THEN <<>>
    ELSE LET j == RepairMatchEnd(s, i)
         IN  IF j > 0
             THEN RemoveSpaces(SubSeq(s, i, j - 1)) \o RepairScheme(s, j)
             ELSE <<s[i]>> \o RepairScheme(s, i + 1)

\* re.sub(r"[<>]", " ", s)
BracketsToSpaces(s) ==
    [i \in 1..Len(s) |-> IF s[i] \in {"<", ">"} THEN "SP" ELSE s[i]]

\* _AGENT_ID_PATTERN (lmtp_handler) at i: index after the match, 0 when none
AgentIdMatchEnd(s, i) ==
    LET a == AfterScheme(s, i)
        h == a + 3
        he == RunEnd(s, h, HostChars)
        n == he + 2
        ne == RunEnd(s, n, NameChars)
    IN  IF a = 0 THEN 0
        ELSE IF ~HasAt(s, a, S_SLASHES) THEN 0
        ELSE IF he = h THEN 0
        ELSE IF ~HasAt(s, he, S_SLASH_AT) THEN 0
        ELSE IF ne = n THEN 0
        ELSE ne

\* _AGENT_ID_PATTERN.search: the leftmost match
RECURSIVE AgentIdSearch(_, _)
AgentIdSearch(s, i) ==
    IF i > Len(s) THEN None
    ELSE LET e == AgentIdMatchEnd(s, i)
         IN  IF e > 0 THEN Some(SubSeq(s, i, e - 1))
             ELSE AgentIdSearch(s, i + 1)

\* raw_header is what Message.get returned: None, a str or a Header object;
\* re.sub raises TypeError on a Header object
\* the result of _extract_agent_id for the outcome of the search
MatchOrUnknown(match) ==
    IF match.some
    THEN [raised |-> FALSE, val |-> match.val]
    ELSE [raised |-> FALSE, val |-> UNKNOWN_AGENT]

_extract_agent_id(raw_header) ==
    IF raw_header.kind = "None" \/ (raw_header.kind = "str" /\ raw_header.val = <<>>)
    THEN [raised |-> FALSE, val |-> UNKNOWN_AGENT]
    ELSE IF raw_header.kind # "str"
    THEN [raised |-> TRUE, val |-> <<>>]
    ELSE MatchOrUnknown(
             AgentIdSearch(RepairScheme(BracketsToSpaces(raw_header.val), 1), 1))

extract_sender(msg) == _extract_agent_id(MsgGet(msg, S_FROM))

extract_recipient(msg) == _extract_agent_id(MsgGet(msg, S_TO))

\* Python values the pipeline passes around: a str, None, a bool or a dict
PyStr(t) == [kind |-> "str", text |-> t, entries |-> <<>>]

PyNone == [kind |-> "None", text |-> <<>>, entries |-> <<>>]

PyBool(b) ==
    [kind |-> "bool", text |-> IF b THEN <<"t", "r", "u", "e">> ELSE <<"f", "a", "l", "s", "e">>,
     entries |-> <<>>]

\* dict.get(key), None when the key is absent
DictGet(d, key) ==
    IF key \in DOMAIN d.entries THEN d.entries[key] ELSE PyNone

\* the value handed on as context / in_reply_to: the str or None
Opt(v) == IF v.kind = "str" THEN Some(v.text) ELSE None

\* the first text/plain part among the parts whose index is in plain
FirstPlain(msg, plain) ==
    IF plain = {} THEN PyStr(<<>>)
    ELSE PyStr(Decode(msg.parts[CHOOSE k \in plain : \A j \in plain : k <= j].body))

\* mutation of extract_body: the text is stripped of surrounding white space
extract_body_Stripped(msg) ==
    IF msg.multipart
    THEN FirstPlain(msg, {k \in 1..Len(msg.parts) : msg.parts[k].ctype = "text/plain"})
    ELSE PyStr(Strip(Decode(msg.body)))

extract_body(msg) ==
    IF msg.multipart
    THEN FirstPlain(msg, {k \in 1..Len(msg.parts) : msg.parts[k].ctype = "text/plain"})
    ELSE PyStr(Decode(msg.body))

(***************************************************************************)
(* json.dumps / json.loads on the values the Envelope holds.  A Python     *)
(* value is a record [kind, text, entries]: a str with its characters, a   *)
(* bool with its JSON literal, None, a dict with one entry per key, or a    *)
(* value json cannot encode (kind "set").  Dict keys and the fixed words    *)
(* of the Envelope are written as TLA+ strings; Spell gives their           *)
(* characters, and Words lists them, the keys in the order dicts are built. *)
(***************************************************************************)
Words ==
    <<"version", "id", "from", "to", "type", "payload", "time", "context", "inReplyTo", "intent", "text", "pong", "echo", "summary", "intents", "error", "v0.1", "email", "reply", "command">>

Spell(w) ==
    CASE w = "version" -> <<"v", "e", "r", "s", "i", "o", "n">>
      [] w = "id" -> <<"i", "d">>
      [] w = "from" -> <<"f", "r", "o", "m">>
      [] w = "to" -> <<"t", "o">>
      [] w = "type" -> <<"t", "y", "p", "e">>
      [] w = "payload" -> <<"p", "a", "y", "l", "o", "a", "d">>
      [] w = "time" -> <<"t", "i", "m", "e">>
      [] w = "context" -> <<"c", "o", "n", "t", "e", "x", "t">>
      [] w = "inReplyTo" -> <<"i", "n", "R", "e", "p", "l", "y", "T", "o">>
      [] w = "intent" -> <<"i", "n", "t", "e", "n", "t">>
      [] w = "text" -> <<"t", "e", "x", "t">>
      [] w = "pong" -> <<"p", "o", "n", "g">>
      [] w = "echo" -> <<"e", "c", "h", "o">>
      [] w = "summary" -> <<"s", "u", "m", "m", "a", "r", "y">>
      [] w = "intents" -> <<"i", "n", "t", "e", "n", "t", "s">>
      [] w = "error" -> <<"e", "r", "r", "o", "r">>
      [] w = "v0.1" -> <<"v", "0", ".", "1">>
      [] w = "email" -> <<"e", "m", "a", "i", "l">>
      [] w = "reply" -> <<"r", "e", "p", "l", "y">>
      [] w = "command" -> <<"c", "o", "m", "m", "a", "n", "d">>
      [] OTHER -> <<"?">>

\* mutation of EscapeChar: no character is escaped
EscapeChar_Raw(ch) == <<ch>>

\* json.dumps escapes quote, backslash and control characters of a str and,
\* with ensure_ascii=False, leaves every other character as it is
EscapeChar(ch) ==
    CASE ch = "\"" -> <<"\\", "\"">>
      [] ch = "\\" -> <<"\\", "\\">>
      [] ch = "LF" -> <<"\\", "n">>
      [] ch = "CR" -> <<"\\", "r">>
      [] ch = "TAB" -> <<"\\", "t">>
      [] OTHER -> <<ch>>

\* json.dumps(v) raises TypeError unless v is built of str, bool, None and
\* dicts and lists of such values
RECURSIVE Encodable(_)
Encodable(v) ==
    \/ v.kind \in {"str", "bool", "None"}
    \/ v.kind \in {"dict", "list"} /\ \A k \in DOMAIN v.entries : Encodable(v.entries[k])

\* json.dumps(v, ensure_ascii=False) of an encodable value, with the default
\* separators ", " and ": "
RECURSIVE json_dumps(_)
json_dumps(v) ==
    CASE v.kind = "str" ->
             <<"\"">> \o Join([i \in 1..Len(v.text) |-> EscapeChar(v.text[i])]) \o <<"\"">>
      [] v.kind = "bool" -> v.text
      [] v.kind = "dict" ->
             LET keys == SelectSeq(Words, LAMBDA w : w \in DOMAIN v.entries)
             IN  <<"{">>
                 \o Join([i \in 1..Len(keys) |->
                             (IF i > 1 THEN <<",", "SP">> ELSE <<>>)
                             \o <<"\"">> \o Spell(keys[i]) \o <<"\"", ":", "SP">>
                             \o json_dumps(v.entries[keys[i]])])
                 \o <<"}">>
      [] v.kind = "list" ->
             <<"[">>
             \o Join([i \in 1..Len(v.entries) |->
                         (IF i > 1 THEN <<",", "SP">> ELSE <<>>) \o json_dumps(v.entries[i])])
             \o <<"]">>
      [] OTHER -> <<"n", "u", "l", "l">>

\* the first index from i on that holds no JSON white space
RECURSIVE SkipWs(_, _)
SkipWs(text, i) ==
    IF i <= Len(text) /\ text[i] \in WS THEN SkipWs(text, i + 1) ELSE i

\* the number of characters ScanRun reads in one run
ScanChunk == 16

\* the decoder's scan of a string whose opening quote precedes index i, for
\* at most n characters: open when the scan is to go on at next; else ok
\* with the characters and the index after the closing quote, not ok for an
\* unterminated string, a raw control character or an unknown escape
RECURSIVE ScanRun(_, _, _, _)
ScanRun(text, i, acc, n) ==
    IF i > Len(text) \/ text[i] \in {"CR", "LF", "TAB"}
    THEN [ok |-> FALSE, open |-> FALSE, val |-> acc, next |-> i]
    ELSE IF text[i] = "\"" THEN [ok |-> TRUE, open |-> FALSE, val |-> acc, next |-> i + 1]
    ELSE IF n = 0 THEN [ok |-> FALSE, open |-> TRUE, val |-> acc, next |-> i]
    ELSE IF text[i] # "\\" THEN ScanRun(text, i + 1, Append(acc, text[i]), n - 1)
    ELSE IF i + 1 > Len(text) \/ text[i + 1] \notin {"\"", "\\", "/", "n", "r", "t"}
    THEN [ok |-> FALSE, open |-> FALSE, val |-> acc, next |-> i]
    ELSE ScanRun(text, i + 2,
                 Append(acc, CASE text[i + 1] = "n" -> "LF"
                               [] text[i + 1] = "r" -> "CR"
                               [] text[i + 1] = "t" -> "TAB"
                               [] OTHER -> text[i + 1]),
                 n - 1)

\* the scan of the whole string, run by run
RECURSIVE ScanString(_, _, _)
ScanString(text, i, acc) ==
    LET r == ScanRun(text, i, acc, ScanChunk)
    IN  IF r.open THEN ScanString(text, r.next, r.val)
        ELSE [ok |-> r.ok, val |-> r.val, next |-> r.next]

\* the word a key is written as
WordOf(chars) ==
    IF \E k \in 1..Len(Words) : Spell(Words[k]) = chars
    THEN Words[CHOOSE k \in 1..Len(Words) : Spell(Words[k]) = chars]
    ELSE "?"

\* the decoder at index i of text: a string, an object, true, false or null
\* (numbers and arrays do not occur in the texts of this model and are
\* answered like a syntax error); ParseMembers reads the members of an
\* object from index i on, entries being the members read so far
RECURSIVE ParseValue(_, _)
RECURSIVE ParseMembers(_, _, _)
ParseMembers(text, i, entries) ==
    LET key == ScanString(text, i + 1, <<>>)
        colon == SkipWs(text, key.next)
        member == ParseValue(text, SkipWs(text, colon + 1))
        after == SkipWs(text, member.next)
        dict == [kind |-> "dict", text |-> <<>>,
                 entries |-> (WordOf(key.val) :> member.val) @@ entries]
    IN  IF i > Len(text) \/ text[i] # "\"" \/ ~key.ok
           \/ colon > Len(text) \/ text[colon] # ":"
           \/ ~member.ok \/ after > Len(text)
        THEN [ok |-> FALSE, val |-> PyNone, next |-> i]
        ELSE IF text[after] = "}" THEN [ok |-> TRUE, val |-> dict, next |-> after + 1]
        ELSE IF text[after] = ","
        THEN ParseMembers(text, SkipWs(text, after + 1), dict.entries)
        ELSE [ok |-> FALSE, val |-> PyNone, next |-> i]

ParseValue(text, i) ==
    IF i > Len(text) THEN [ok |-> FALSE, val |-> PyNone, next |-> i]
    ELSE IF text[i] = "\""
    THEN [ScanString(text, i + 1, <<>>) EXCEPT !.val = PyStr(@)]
    ELSE IF text[i] = "{"
    THEN IF HasAt(text, SkipWs(text, i + 1), <<"}">>)
         THEN [ok |-> TRUE, val |-> [kind |-> "dict", text |-> <<>>, entries |-> <<>>],
               next |-> SkipWs(text, i + 1) + 1]
         ELSE ParseMembers(text, SkipWs(text, i + 1), <<>>)
    ELSE IF HasAt(text, i, <<"n", "u", "l", "l">>)
    THEN [ok |-> TRUE, val |-> PyNone, next |-> i + 4]
    ELSE IF HasAt(text, i, <<"t", "r", "u", "e">>)
    THEN [ok |-> TRUE, val |-> PyBool(TRUE), next |-> i + 4]
    ELSE IF HasAt(text, i, <<"f", "a", "l", "s", "e">>)
    THEN [ok |-> TRUE, val |-> PyBool(FALSE), next |-> i + 5]
    ELSE [ok |-> FALSE, val |-> PyNone, next |-> i]

\* json.loads(text): raised is JSONDecodeError, also for text after the value
json_loads(text) ==
    LET v == ParseValue(text, SkipWs(text, 1))
    IN  [raised |-> ~v.ok \/ SkipWs(text, v.next) <= Len(text), val |-> v.val]

(***************************************************************************)
(* ai_agent_os.envelope                                                    *)
(***************************************************************************)
\* envelope._AGENT_ID_PATTERN: ^https?://[^/]+/@[^/]+$
\* ([^/]+ also takes a final newline, so $ only ever applies at the end)
ValidAgentId(s) ==
    LET a == AfterScheme(s, 1)
        h == a + 3
        he == RunEnd(s, h, {s[k] : k \in 1..Len(s)} \ {"/"})
        n == he + 2
    IN  /\ a # 0
        /\ HasAt(s, a, S_SLASHES)
        /\ he > h
        /\ HasAt(s, he, S_SLASH_AT)
        /\ n <= Len(s)
        /\ \A k \in n..Len(s) : s[k] # "/"

\* Envelope.__post_init__: raised when a validation fails (ValueError for an
\* agent id, TypeError for the payload or a created_at that is no datetime);
\* a datetime is a record [sec, tz], any other value a Python value
EnvelopeInit(e) ==
    IF ~ValidAgentId(e.sender) \/ ~ValidAgentId(e.recipient)
    THEN [raised |-> TRUE, env |-> e]
    ELSE IF e.payload.kind \notin {"str", "dict"}
    THEN [raised |-> TRUE, env |-> e]
    ELSE IF e.payload.kind = "dict" /\ ~Encodable(e.payload)
    THEN [raised |-> TRUE, env |-> e]
    ELSE IF "sec" \notin DOMAIN e.created_at
    THEN [raised |-> TRUE, env |-> e]
    ELSE [raised |-> FALSE,
          env |-> IF e.created_at.tz = "naive"
                  THEN [e EXCEPT !.created_at.tz = "UTC"] ELSE e]

\* Envelope.new with the arguments _process_message passes; uuid is the
\* value uuid.uuid4() returned
EnvelopeNew(envelope_type, sender, recipient, payload, context, in_reply_to, created_at, uuid) ==
    EnvelopeInit([id |-> uuid,
                  envelope_type |-> envelope_type,
                  sender |-> sender,
                  recipient |-> recipient,
                  payload |-> payload,
                  created_at |-> created_at,
                  context |-> context,
                  in_reply_to |-> in_reply_to,
                  version |-> "v0.1"])

\* Envelope.to_dict
to_dict(e) ==
    [version |-> e.version,
     id |-> e.id,
     from |-> e.sender,
     to |-> e.recipient,
     type |-> e.envelope_type,
     payload |-> e.payload,
     time |-> isoformat(e.created_at),
     context |-> e.context,
     inReplyTo |-> e.in_reply_to]

\* str(uuid.uuid4()) for the uuid value n
UuidText(n) == <<"u", DigitChar(n)>>

\* the uuid value whose text is id (0: the text of no uuid of the model)
UuidOf(id) ==
    IF \E n \in 1..9 : UuidText(n) = id THEN CHOOSE n \in 1..9 : UuidText(n) = id ELSE 0

\* the dict d = to_dict(e) as a value of the interpreter
DocDict(d) ==
    [kind |-> "dict", text |-> <<>>,
     entries |-> [version |-> PyStr(Spell(d.version)),
                  id |-> PyStr(UuidText(d.id)),
                  from |-> PyStr(d.from),
                  to |-> PyStr(d.to),
                  type |-> PyStr(Spell(d.type)),
                  payload |-> d.payload,
                  time |-> PyStr(d.time),
                  context |-> IF d.context.some THEN PyStr(d.context.val) ELSE PyNone,
                  inReplyTo |-> IF d.inReplyTo.some THEN PyStr(d.inReplyTo.val)
                                ELSE PyNone]]

\* json.dumps(d, ensure_ascii=False) for d = to_dict(e)
DocText(d) == json_dumps(DocDict(d))

\* Envelope.to_json
to_json(e) == DocText(to_dict(e))

\* Envelope.from_dict: raised is the KeyError of a missing time, id, type,
\* from or to, the ValueError of fromisoformat, the TypeError of an agent id
\* that is no str, or what the constructor raises
from_dict(data) ==
    IF {"time", "id", "type", "from", "to"} \ DOMAIN data.entries # {}
    THEN [raised |-> TRUE, env |-> <<>>]
    ELSE IF data.entries.time.kind = "str" /\ fromisoformat(data.entries.time.text).raised
    THEN [raised |-> TRUE, env |-> <<>>]
    ELSE IF data.entries.from.kind # "str" \/ data.entries.to.kind # "str"
    THEN [raised |-> TRUE, env |-> <<>>]
    ELSE EnvelopeInit(
             [id |-> UuidOf(data.entries.id.text),
              envelope_type |-> WordOf(data.entries.type.text),
              sender |-> data.entries.from.text,
              recipient |-> data.entries.to.text,
              payload |-> DictGet(data, "payload"),
              created_at |-> IF data.entries.time.kind = "str"
                             THEN fromisoformat(data.entries.time.text).dt
                             ELSE data.entries.time,
              context |-> Opt(DictGet(data, "context")),
              in_reply_to |-> Opt(DictGet(data, "inReplyTo")),
              version |-> IF "version" \in DOMAIN data.entries
                          THEN WordOf(data.entries.version.text) ELSE "v0.1"])

\* Envelope.from_json: raised also for text that is no JSON or no object
from_json(raw_json) ==
    IF json_loads(raw_json).raised \/ json_loads(raw_json).val.kind # "dict"
    THEN [raised |-> TRUE, env |-> <<>>]
    ELSE from_dict(json_loads(raw_json).val)

(***************************************************************************)
(* The message pipeline of LMTPServer._process_message up to the Envelope: *)
(* raised tells that a step raised, reached_new that Envelope.new was      *)
(* called (and drew a uuid).                                               *)
(***************************************************************************)
\* Python truth value of a str / None
Truthy(v) == v.kind # "None" /\ ~(v.kind = "str" /\ v.text = <<>>)

\* lines 142-164: context, in_reply_to, created_at and payload
\* from payload_data, read at clock time t
Metadata(payload_data, t) ==
    IF payload_data.kind # "dict"
    THEN [context |-> None, in_reply_to |-> None, created_at |-> UtcNow(t),
          payload |-> payload_data]
    ELSE [context |-> Opt(DictGet(payload_data, "context")),
          in_reply_to |->
              IF Truthy(DictGet(payload_data, "inReplyTo"))
              THEN Opt(DictGet(payload_data, "inReplyTo"))
              ELSE Opt(DictGet(payload_data, "in_reply_to")),
          created_at |->
              IF DictGet(payload_data, "time").kind = "str"
                 /\ ~fromisoformat(DictGet(payload_data, "time").text).raised
              THEN [fromisoformat(DictGet(payload_data, "time").text).dt
                       EXCEPT !.tz = "UTC"]
              ELSE UtcNow(t),
          payload |->
              IF "payload" \in DOMAIN payload_data.entries
              THEN payload_data.entries["payload"]
              ELSE payload_data]

\* the try block up to Envelope.new, given what the extractors returned
Assemble(sender, recipient, meta, uuid) ==
    IF sender.raised \/ recipient.raised
    THEN [raised |-> TRUE, reached_new |-> FALSE, env |-> <<>>]
    ELSE [raised |-> EnvelopeNew("email", sender.val, recipient.val, meta.payload,
                                 meta.context, meta.in_reply_to, meta.created_at,
                                 uuid).raised,
          reached_new |-> TRUE,
          env |-> EnvelopeNew("email", sender.val, recipient.val, meta.payload,
                              meta.context, meta.in_reply_to, meta.created_at,
                              uuid).env]

AssembleMessage(msg, t, uuid) ==
    Assemble(extract_sender(msg), extract_recipient(msg),
             Metadata(extract_body(msg), t), uuid)

BuildEnvelope(data, t, uuid) == AssembleMessage(message_from_bytes(Join(data)), t, uuid)

(***************************************************************************)
(* The queue directory: a set of files, at most one per name.  complete    *)
(* is FALSE for a file that open("w") created and whose write did not      *)
(* finish; by is the connection and transaction that wrote the file.       *)
(***************************************************************************)
\* mutation of FileName: the name is the time stamp alone
FileName_StampOnly(env) == [stamp |-> strftime(env.created_at), id |-> 0]

\* fname = f"{timestamp}_{env.id}.json"
FileName(env) == [stamp |-> strftime(env.created_at), id |-> env.id]

\* save_envelope writing the whole document
SaveFile(dir, env, who) ==
    {f \in dir : f.name # FileName(env)}
        \cup {[name |-> FileName(env), complete |-> TRUE,
               doc |-> to_dict(env), by |-> who]}

\* save_envelope when the write raises after open("w") created the file
SavePartial(dir, env, who) ==
    {f \in dir : f.name # FileName(env)}
        \cup {[name |-> FileName(env), complete |-> FALSE,
               doc |-> to_dict(env), by |-> who]}

\* faults of the file system during save_envelope
Faults == {"none", "open", "write"}

save_envelope(dir, env, who, fault) ==
    CASE fault = "none" -> [raised |-> FALSE, dir |-> SaveFile(dir, env, who)]
      [] fault = "open" -> [raised |-> TRUE, dir |-> dir]
      [] fault = "write" -> [raised |-> TRUE, dir |-> SavePartial(dir, env, who)]

\* the try block from save_envelope on, given the outcome built of the steps
\* before it: the directory afterwards and whether the block raised
SaveBuilt(dir, built, who, fault) ==
    IF built.raised THEN [raised |-> TRUE, dir |-> dir]
    ELSE save_envelope(dir, built.env, who, fault)

(***************************************************************************)
(* State.  One entry per connection for the locals of _handle_client:      *)
(* pc is "none" (never accepted), "new" (accepted, greeting not yet        *)
(* written), "run" (in the read loop), "closed" (left the loop, writer     *)
(* closed) or "crashed" (an exception left _handle_client); the locals of  *)
(* a handler that has ended no longer exist and read as their initial      *)
(* values.  raw_line is the line readline returned last.  responses are    *)
(* the lines write_response has written and                                *)
(* drained, each with the number of the input line whose handling wrote    *)
(* it (0 for the greeting); trace names, for every line readline returned, *)
(* the branch of the loop that handled it; txn counts the DATA terminators *)
(* handled.  peer is the sender on the other side of the connection: an    *)
(* "any" peer sends whatever line it likes, an "e2e" peer sends one        *)
(* delivery in protocol order (LHLO, MAIL FROM, RCPT TO, DATA, the         *)
(* message, the terminator) and is then "done"; "conc" peers are several   *)
(* senders at once, each with a few commands and short messages; an       *)
(* "order" peer sends one short message after the other; "twin" peers are  *)
(* two senders of the same message lines, each after transport commands    *)
(* of its own choice (connection 2 repeats the lines of connection 1 and    *)
(* both messages end once both hold the same lines); a "json" peer sends   *)
(* messages whose text is a JSON object, a "cmds" peer messages whose       *)
(* lines read like commands.                                               *)
(*                                                                         *)
(* The worker (agent_worker) has the directory processed, the replies sent *)
(* handed to send_envelope_via_smtp, and returned, the outcomes of its     *)
(* calls of process_next_envelope; queue_exists tells whether the queue    *)
(* directory exists.  call is the last application of a function of        *)
(* ai_agent_os.envelope to an argument: what was applied and what came of  *)
(* it.                                                                     *)
(***************************************************************************)
VARIABLES pc, mail_from, recipients, in_data_mode, data_lines, raw_line,
          responses, at_eof, trace, txn, queue, now, uuid_stream, peer,
          processed, sent, returned, queue_exists, call

\* the state of the worker and of the function applications
wvars == <<processed, sent, returned, queue_exists, call>>

vars == <<pc, mail_from, recipients, in_data_mode, data_lines, raw_line,
          responses, at_eof, trace, txn, queue, now, uuid_stream, peer,
          processed, sent, returned, queue_exists, call>>

\* the lines a peer may send as commands
CommandLineSet ==
    {L_LHLO, L_MAIL, L_RCPT, L_DATA, L_data, L_QUIT, L_NOOP}

\* the lines a peer may send after DATA
DataLineSet ==
    {L_DOT_CRLF, L_DOT_LF, L_DOT_EOF, L_DOTDOT,
     L_FROM, L_FROM_8BIT, L_BLANK, L_HI, L_QUIT}

LineSet == CommandLineSet \cup DataLineSet

Terminators == {L_DOT_CRLF, L_DOT_LF, L_DOT_EOF}

\* the lines the peer of c may send next
PeerLines(c) ==
    LET p == Len(trace[c]) + 1
    IN  CASE peer[c] = "any" ->
               IF p > MaxLines THEN {}
               ELSE IF in_data_mode[c] THEN DataLineSet ELSE CommandLineSet
          [] peer[c] = "e2e" ->
               IF p = 1 THEN {L_LHLO}
               ELSE IF p = 2 THEN {L_MAIL}
               ELSE IF p = 3 THEN {L_RCPT}
               ELSE IF p = 4 THEN {L_DATA, L_data}
               ELSE DataLineSet
          [] peer[c] = "conc" ->
               IF p > MaxConcLines THEN {}
               ELSE IF in_data_mode[c] THEN {L_HI, L_FROM_8BIT, L_DOT_CRLF}
               ELSE {L_MAIL, L_RCPT, L_DATA}
          [] peer[c] = "order" ->
               IF p > MaxLines THEN {}
               ELSE IF in_data_mode[c] THEN {L_HI, L_DOT_CRLF}
               ELSE {L_DATA}
          [] peer[c] = "twin" ->
               IF txn[c] > 0 THEN {}
               ELSE IF ~in_data_mode[c]
               THEN (IF p <= 2 THEN {L_MAIL, L_RCPT, L_DATA} ELSE {L_DATA})
               ELSE IF c = 1
               THEN (IF Len(data_lines[1]) < MaxData
                     THEN {L_HI, L_FROM, L_FROM_8BIT, L_BLANK} ELSE {})
                        \cup (IF in_data_mode[2] /\ data_lines[2] = data_lines[1]
                              THEN {L_DOT_CRLF} ELSE {})
               ELSE IF txn[1] > 0 THEN {L_DOT_CRLF, L_DOT_LF}
               ELSE IF Len(data_lines[c]) < Len(data_lines[1])
               THEN {data_lines[1][Len(data_lines[c]) + 1]}
               ELSE {}
          [] peer[c] = "json" ->
               IF p > MaxLines THEN {}
               ELSE IF in_data_mode[c] THEN {L_FROM, L_BLANK, L_JSON, L_DOT_CRLF}
               ELSE {L_DATA}
          [] peer[c] = "cmds" ->
               IF p > MaxLines THEN {}
               ELSE IF in_data_mode[c] THEN CommandLineSet \cup {L_DOT_CRLF}
               ELSE {L_MAIL, L_RCPT, L_DATA, L_QUIT}
          [] OTHER -> {}

\* response lines; mid is the message id of "250 OK queued as", else 0
Resp(text) == [text |-> text, mid |-> 0, line |-> 0]

R220 == Resp("220 AI-Agent-Hub LMTP server ready")

R250 == Resp("250 OK")

R354 == Resp("354 Start mail input; end with <CRLF>.<CRLF>")

R221 == Resp("221 Bye")

R500 == Resp("500 Unknown command")

R451 == Resp("451 Requested action aborted: processing error")

R250Queued(message_id) ==
    [text |-> "250 OK queued as", mid |-> message_id, line |-> 0]

ServerInit(accepted, stream, kind) ==
    /\ pc = [c \in Conns |-> IF c \in accepted THEN "new" ELSE "none"]
    /\ mail_from = [c \in Conns |-> None]
    /\ recipients = [c \in Conns |-> <<>>]
    /\ in_data_mode = [c \in Conns |-> FALSE]
    /\ data_lines = [c \in Conns |-> <<>>]
    /\ raw_line = [c \in Conns |-> <<>>]
    /\ responses = [c \in Conns |-> <<>>]
    /\ at_eof = [c \in Conns |-> FALSE]
    /\ trace = [c \in Conns |-> <<>>]
    /\ txn = [c \in Conns |-> 0]
    /\ now = 0
    /\ uuid_stream = stream
    /\ peer = [c \in Conns |-> kind]

\* the server with an empty queue directory, no worker and no function applied
SessionInit(accepted, stream, kind) ==
    /\ ServerInit(accepted, stream, kind)
    /\ queue = {}
    /\ processed = {}
    /\ sent = <<>>
    /\ returned = <<>>
    /\ queue_exists = TRUE
    /\ call = [op |-> "none"]

\* uuid_stream holds the values the coming uuid.uuid4() calls return; they are
\* pairwise different
Init == SessionInit({1}, [k \in 1..MaxUuid |-> k], "any")

\* write_response(line) while handling input line n: the line is written and
\* drained, or, when the
\* transport has lost the connection, drain raises and nothing is sent
WriteResponse(c, resp, n, lost, next_pc) ==
    IF lost
    THEN /\ pc' = [pc EXCEPT ![c] = "crashed"]
         /\ UNCHANGED responses
    ELSE /\ pc' = [pc EXCEPT ![c] = next_pc]
         /\ responses' = [responses EXCEPT
                             ![c] = Append(@, [resp EXCEPT !.line = n])]

\* the handler of c has ended when pc'[c] is "closed" or "crashed"
Ended(c) == pc'[c] \in {"closed", "crashed"}

\* the locals of _handle_client after a step that read the line rl and
\* assigns them the values mf, rc, dm, dl if the handler goes on
Locals(c, mf, rc, dm, dl, rl) ==
    /\ mail_from' = [mail_from EXCEPT ![c] = IF Ended(c) THEN None ELSE mf]
    /\ recipients' = [recipients EXCEPT ![c] = IF Ended(c) THEN <<>> ELSE rc]
    /\ in_data_mode' = [in_data_mode EXCEPT ![c] = IF Ended(c) THEN FALSE ELSE dm]
    /\ data_lines' = [data_lines EXCEPT ![c] = IF Ended(c) THEN <<>> ELSE dl]
    /\ raw_line' = [raw_line EXCEPT ![c] = rl]

\* mutation of Greet: the handler enters the read loop without a greeting
Greet_Silent(c, lost) ==
    /\ pc[c] = "new"
    /\ pc' = [pc EXCEPT ![c] = IF lost THEN "crashed" ELSE "run"]
    /\ UNCHANGED <<mail_from, recipients, in_data_mode, data_lines, raw_line,
                   responses, at_eof, trace, txn, queue, now, uuid_stream, peer>>
    /\ UNCHANGED wvars

\* _handle_client up to the loop: the greeting
Greet(c, lost) ==
    /\ pc[c] = "new"
    /\ WriteResponse(c, R220, 0, lost, "run")
    /\ UNCHANGED <<mail_from, recipients, in_data_mode, data_lines, raw_line,
                   at_eof, trace, txn, queue, now, uuid_stream, peer>>
    /\ UNCHANGED wvars

\* readline returned line, which the branch named branch handles; a line
\* without a line ending is the last of the stream
Readline(c, line, branch) ==
    /\ pc[c] = "run"
    /\ ~at_eof[c]
    /\ line \in PeerLines(c)
    /\ peer' = [peer EXCEPT ![c] = IF @ = "e2e" /\ line \in Terminators
                                   THEN "done" ELSE @]
    /\ trace' = [trace EXCEPT ![c] = Append(@, branch)]
    /\ at_eof' = [at_eof EXCEPT ![c] = line[Len(line)] # "LF"]

\* line = raw_line.decode(errors="replace").strip()
CommandText(line) == Strip(Decode(line))

IsLhlo(line) == StartsWith(Upper(CommandText(line)), S_LHLO)

IsMailFrom(line) == StartsWith(Upper(CommandText(line)), S_MAIL_FROM)

IsRcptTo(line) == StartsWith(Upper(CommandText(line)), S_RCPT_TO)

\* mutation of IsData: the comparison forgets to fold the case
IsData_CaseSensitive(line) == CommandText(line) = S_DATA

IsData(line) == Upper(CommandText(line)) = S_DATA

IsQuit(line) == Upper(CommandText(line)) = S_QUIT

\* raw_line in {b".\r\n", b".\n", b"."}
IsTerminator(line) ==
    line \in {<<".", "CR", "LF">>, <<".", "LF">>, <<".">>}

CmdLhlo(c, line, lost) ==
    /\ Readline(c, line, "LHLO")
    /\ ~in_data_mode[c]
    /\ IsLhlo(line)
    /\ WriteResponse(c, R250, Len(trace[c]) + 1, lost, "run")
    /\ Locals(c, mail_from[c], recipients[c], FALSE, data_lines[c], line)
    /\ UNCHANGED <<txn, queue, now, uuid_stream>>
    /\ UNCHANGED wvars

CmdMailFrom(c, line, lost) ==
    /\ Readline(c, line, "MAIL FROM")
    /\ ~in_data_mode[c]
    /\ ~IsLhlo(line) /\ IsMailFrom(line)
    /\ WriteResponse(c, R250, Len(trace[c]) + 1, lost, "run")
    /\ Locals(c, Some(Strip(Drop(CommandText(line), 10))), recipients[c],
              FALSE, data_lines[c], line)
    /\ UNCHANGED <<txn, queue, now, uuid_stream>>
    /\ UNCHANGED wvars

CmdRcptTo(c, line, lost) ==
    /\ Readline(c, line, "RCPT TO")
    /\ ~in_data_mode[c]
    /\ ~IsLhlo(line) /\ ~IsMailFrom(line) /\ IsRcptTo(line)
    /\ WriteResponse(c, R250, Len(trace[c]) + 1, lost, "run")
    /\ Locals(c, mail_from[c],
              Append(recipients[c], Strip(Drop(CommandText(line), 8))),
              FALSE, data_lines[c], line)
    /\ UNCHANGED <<txn, queue, now, uuid_stream>>
    /\ UNCHANGED wvars

CmdData(c, line, lost) ==
    /\ Readline(c, line, "DATA")
    /\ ~in_data_mode[c]
    /\ ~IsLhlo(line) /\ ~IsMailFrom(line) /\ ~IsRcptTo(line) /\ IsData(line)
    /\ WriteResponse(c, R354, Len(trace[c]) + 1, lost, "run")
    /\ Locals(c, mail_from[c], recipients[c], TRUE, <<>>, line)
    /\ UNCHANGED <<txn, queue, now, uuid_stream>>
    /\ UNCHANGED wvars

\* mutation of CmdQuit: QUIT is a command in DATA mode as well
CmdQuit_AnyMode(c, line, lost) ==
    /\ Readline(c, line, "QUIT")
    /\ ~IsLhlo(line) /\ ~IsMailFrom(line) /\ ~IsRcptTo(line) /\ ~IsData(line)
    /\ IsQuit(line)
    /\ WriteResponse(c, R221, Len(trace[c]) + 1, lost, "closed")
    /\ Locals(c, mail_from[c], recipients[c], FALSE, data_lines[c], line)
    /\ UNCHANGED <<txn, queue, now, uuid_stream>>
    /\ UNCHANGED wvars

\* mutation of CmdQuit: the loop goes on after "221"
CmdQuit_KeepOpen(c, line, lost) ==
    /\ Readline(c, line, "QUIT")
    /\ ~in_data_mode[c]
    /\ ~IsLhlo(line) /\ ~IsMailFrom(line) /\ ~IsRcptTo(line) /\ ~IsData(line)
    /\ IsQuit(line)
    /\ WriteResponse(c, R221, Len(trace[c]) + 1, lost, "run")
    /\ Locals(c, mail_from[c], recipients[c], FALSE, data_lines[c], line)
    /\ UNCHANGED <<txn, queue, now, uuid_stream>>
    /\ UNCHANGED wvars

\* break, then writer.close()
CmdQuit(c, line, lost) ==
    /\ Readline(c, line, "QUIT")
    /\ ~in_data_mode[c]
    /\ ~IsLhlo(line) /\ ~IsMailFrom(line) /\ ~IsRcptTo(line) /\ ~IsData(line)
    /\ IsQuit(line)
    /\ WriteResponse(c, R221, Len(trace[c]) + 1, lost, "closed")
    /\ Locals(c, mail_from[c], recipients[c], FALSE, data_lines[c], line)
    /\ UNCHANGED <<txn, queue, now, uuid_stream>>
    /\ UNCHANGED wvars

\* mutation of CmdUnknown: an unknown command gets no response
CmdUnknown_Silent(c, line, lost) ==
    /\ Readline(c, line, "unknown")
    /\ ~in_data_mode[c]
    /\ ~IsLhlo(line) /\ ~IsMailFrom(line) /\ ~IsRcptTo(line) /\ ~IsData(line)
    /\ ~IsQuit(line)
    /\ pc' = [pc EXCEPT ![c] = IF lost THEN "crashed" ELSE "run"]
    /\ Locals(c, mail_from[c], recipients[c], FALSE, data_lines[c], line)
    /\ UNCHANGED <<responses, txn, queue, now, uuid_stream>>
    /\ UNCHANGED wvars

\* mutation of CmdUnknown: an unknown command ends the session
CmdUnknown_Close(c, line, lost) ==
    /\ Readline(c, line, "unknown")
    /\ ~in_data_mode[c]
    /\ ~IsLhlo(line) /\ ~IsMailFrom(line) /\ ~IsRcptTo(line) /\ ~IsData(line)
    /\ ~IsQuit(line)
    /\ WriteResponse(c, R500, Len(trace[c]) + 1, lost, "closed")
    /\ Locals(c, mail_from[c], recipients[c], FALSE, data_lines[c], line)
    /\ UNCHANGED <<txn, queue, now, uuid_stream>>
    /\ UNCHANGED wvars

CmdUnknown(c, line, lost) ==
    /\ Readline(c, line, "unknown")
    /\ ~in_data_mode[c]
    /\ ~IsLhlo(line) /\ ~IsMailFrom(line) /\ ~IsRcptTo(line) /\ ~IsData(line)
    /\ ~IsQuit(line)
    /\ WriteResponse(c, R500, Len(trace[c]) + 1, lost, "run")
    /\ Locals(c, mail_from[c], recipients[c], FALSE, data_lines[c], line)
    /\ UNCHANGED <<txn, queue, now, uuid_stream>>
    /\ UNCHANGED wvars

\* mutation of Unstuff: the stuffed dot is kept
Unstuff_Keep(line) == line

\* if raw_line.startswith(b".."): raw_line = raw_line[1:]
Unstuff(line) == IF StartsWith(line, <<".", ".">>) THEN Tail(line) ELSE line

\* mutation of DataLine: one buffer for all connections
DataLine_Shared(c, line) ==
    /\ Readline(c, line, "data")
    /\ in_data_mode[c]
    /\ ~IsTerminator(line)
    /\ Len(data_lines[c]) < MaxData
    /\ raw_line' = [raw_line EXCEPT ![c] = line]
    /\ data_lines' = [d \in Conns |-> IF in_data_mode[d]
                                      THEN Append(data_lines[d], Unstuff(line))
                                      ELSE data_lines[d]]
    /\ UNCHANGED <<pc, mail_from, recipients, in_data_mode, responses, txn,
                   queue, now, uuid_stream>>
    /\ UNCHANGED wvars

\* DATA mode, a line other than the terminator: dot-unstuffing and append
DataLine(c, line) ==
    /\ Readline(c, line, "data")
    /\ in_data_mode[c]
    /\ ~IsTerminator(line)
    /\ Len(data_lines[c]) < MaxData
    /\ raw_line' = [raw_line EXCEPT ![c] = line]
    /\ data_lines' = [data_lines EXCEPT ![c] = Append(@, Unstuff(line))]
    /\ UNCHANGED <<pc, mail_from, recipients, in_data_mode, responses, txn,
                   queue, now, uuid_stream>>
    /\ UNCHANGED wvars

\* lines 178-187: the directory after save_envelope, then "250 OK queued as
\* <message_id>", or "451" from the except block when a step raised
Respond(c, lost, message_id, saved) ==
    /\ queue' = saved.dir
    /\ IF saved.raised
       THEN WriteResponse(c, R451, Len(trace[c]) + 1, lost, "run")
       ELSE WriteResponse(c, R250Queued(message_id), Len(trace[c]) + 1, lost, "run")

\* _process_message: message_id is the first uuid4() of the stream, the
\* second is drawn by Envelope.new when it is reached; a fault of the file
\* system shows only when save_envelope is reached
Deliver(c, lost, fault, built) ==
    /\ fault # "none" => ~built.raised
    /\ uuid_stream' = Drop(uuid_stream, IF built.reached_new THEN 2 ELSE 1)
    /\ Respond(c, lost, uuid_stream[1],
               SaveBuilt(queue, built, [conn |-> c, txn |-> txn[c] + 1], fault))

\* mutation of DataTerminator: a message without MAIL FROM is not processed
DataTerminator_NeedsMailFrom(c, line, lost, fault, t) ==
    /\ Readline(c, line, "terminator")
    /\ in_data_mode[c]
    /\ IsTerminator(line)
    /\ Len(uuid_stream) >= 2
    /\ fault \in Faults
    /\ t \in now..MaxClock
    /\ Deliver(c, lost, fault,
               IF mail_from[c] = None
               THEN [raised |-> TRUE, reached_new |-> FALSE, env |-> <<>>]
               ELSE BuildEnvelope(data_lines[c], t, uuid_stream[2]))
    /\ Locals(c, None, <<>>, FALSE, <<>>, line)
    /\ txn' = [txn EXCEPT ![c] = @ + 1]
    /\ now' = t
    /\ UNCHANGED wvars

\* mutation of DataTerminator: mail_from and recipients survive the message
DataTerminator_NoReset(c, line, lost, fault, t) ==
    /\ Readline(c, line, "terminator")
    /\ in_data_mode[c]
    /\ IsTerminator(line)
    /\ Len(uuid_stream) >= 2
    /\ fault \in Faults
    /\ t \in now..MaxClock
    /\ Deliver(c, lost, fault, BuildEnvelope(data_lines[c], t, uuid_stream[2]))
    /\ Locals(c, mail_from[c], recipients[c], FALSE, <<>>, line)
    /\ txn' = [txn EXCEPT ![c] = @ + 1]
    /\ now' = t
    /\ UNCHANGED wvars

\* DATA mode, the terminator: _process_message, then the reset of the
\* session.  fault is the outcome of the file system in save_envelope, lost
\* whether the transport lost the connection before the response is drained
\* (then the write of "250" raises, the handler's write of "451" raises as
\* well and the exception leaves _handle_client), t what the clock shows
\* when datetime.now is read (now is its last reading)
DataTerminator(c, line, lost, fault, t) ==
    /\ Readline(c, line, "terminator")
    /\ in_data_mode[c]
    /\ IsTerminator(line)
    /\ Len(uuid_stream) >= 2
    /\ fault \in Faults
    /\ t \in now..MaxClock
    /\ Deliver(c, lost, fault, BuildEnvelope(data_lines[c], t, uuid_stream[2]))
    /\ Locals(c, None, <<>>, FALSE, <<>>, line)
    /\ txn' = [txn EXCEPT ![c] = @ + 1]
    /\ now' = t
    /\ UNCHANGED wvars

\* mutation of EndOfStream: the lines buffered so far are processed as a
\* message when the stream ends
EndOfStream_Flush(c) ==
    /\ pc[c] = "run"
    /\ pc' = [pc EXCEPT ![c] = "closed"]
    /\ Locals(c, None, <<>>, FALSE, <<>>, raw_line[c])
    /\ queue' = IF in_data_mode[c] /\ Len(uuid_stream) >= 2
                THEN SaveBuilt(queue, BuildEnvelope(data_lines[c], now, uuid_stream[2]),
                               [conn |-> c, txn |-> txn[c] + 1], "none").dir
                ELSE queue
    /\ UNCHANGED <<responses, at_eof, trace, txn, now, uuid_stream, peer>>
    /\ UNCHANGED wvars

\* the peer closed: at_eof() is true or readline returned b"", the loop
\* ends and the writer is closed
EndOfStream(c) ==
    /\ pc[c] = "run"
    /\ pc' = [pc EXCEPT ![c] = "closed"]
    /\ Locals(c, None, <<>>, FALSE, <<>>, raw_line[c])
    /\ UNCHANGED <<responses, at_eof, trace, txn, queue, now, uuid_stream, peer>>
    /\ UNCHANGED wvars

Next ==
    \/ \E c \in Conns, lost \in BOOLEAN : Greet(c, lost)
    \/ \E c \in Conns, line \in LineSet, lost \in BOOLEAN : CmdLhlo(c, line, lost)
    \/ \E c \in Conns, line \in LineSet, lost \in BOOLEAN : CmdMailFrom(c, line, lost)
    \/ \E c \in Conns, line \in LineSet, lost \in BOOLEAN : CmdRcptTo(c, line, lost)
    \/ \E c \in Conns, line \in LineSet, lost \in BOOLEAN : CmdData(c, line, lost)
    \/ \E c \in Conns, line \in LineSet, lost \in BOOLEAN : CmdQuit(c, line, lost)
    \/ \E c \in Conns, line \in LineSet, lost \in BOOLEAN : CmdUnknown(c, line, lost)
    \/ \E c \in Conns, line \in LineSet : DataLine(c, line)
    \/ \E c \in Conns, line \in LineSet, lost \in BOOLEAN, fault \in Faults,
          t \in 0..MaxClock : DataTerminator(c, line, lost, fault, t)
    \/ \E c \in Conns : EndOfStream(c)

Spec == Init /\ [][Next]_vars

(***************************************************************************)
(* One delivery in protocol order on one connection, over a transport and  *)
(* a file system that do not fail.                                         *)
(***************************************************************************)
InitE2E == SessionInit({1}, [k \in 1..MaxUuid |-> k], "e2e")

NextE2E ==
    \/ \E c \in Conns, lost \in {FALSE} : Greet(c, lost)
    \/ \E c \in Conns, line \in LineSet, lost \in {FALSE} : CmdLhlo(c, line, lost)
    \/ \E c \in Conns, line \in LineSet, lost \in {FALSE} : CmdMailFrom(c, line, lost)
    \/ \E c \in Conns, line \in LineSet, lost \in {FALSE} : CmdRcptTo(c, line, lost)
    \/ \E c \in Conns, line \in LineSet, lost \in {FALSE} : CmdData(c, line, lost)
    \/ \E c \in Conns, line \in LineSet : DataLine(c, line)
    \/ \E c \in Conns, line \in LineSet, lost \in {FALSE}, fault \in {"none"},
          t \in 0..MaxClock : DataTerminator(c, line, lost, fault, t)
    \/ \E c \in Conns : EndOfStream(c)

SpecE2E == InitE2E /\ [][NextE2E]_vars

(***************************************************************************)
(* Two connections served side by side by the event loop, over a transport *)
(* and a file system that do not fail.  Each step is what one handler does *)
(* between two awaits.                                                     *)
(***************************************************************************)
InitConc == SessionInit(Conns, [k \in 1..MaxUuid |-> k], "conc")

NextConc ==
    \/ \E c \in Conns, lost \in {FALSE} : Greet(c, lost)
    \/ \E c \in Conns, line \in LineSet, lost \in {FALSE} : CmdMailFrom(c, line, lost)
    \/ \E c \in Conns, line \in LineSet, lost \in {FALSE} : CmdRcptTo(c, line, lost)
    \/ \E c \in Conns, line \in LineSet, lost \in {FALSE} : CmdData(c, line, lost)
    \/ \E c \in Conns, line \in LineSet : DataLine(c, line)
    \/ \E c \in Conns, line \in LineSet, lost \in {FALSE}, fault \in {"none"},
          t \in 0..MaxClock : DataTerminator(c, line, lost, fault, t)
    \/ \E c \in Conns : EndOfStream(c)

SpecConc == InitConc /\ [][NextConc]_vars

(***************************************************************************)
(* Messages delivered one after the other on one connection, with the      *)
(* values of uuid4() in any order: a uuid4 is random, so the order of two  *)
(* of them as text is not the order in which they were drawn.  The numbers *)
(* of uuid_stream stand for the uuids in their order as text.              *)
(***************************************************************************)
UuidStreams ==
    {s \in [1..MaxUuid -> 1..MaxUuid] : \A i, j \in 1..MaxUuid : s[i] = s[j] => i = j}

InitOrder == \E s \in UuidStreams : SessionInit({1}, s, "order")

NextOrder ==
    \/ \E c \in Conns, lost \in {FALSE} : Greet(c, lost)
    \/ \E c \in Conns, line \in LineSet, lost \in {FALSE} : CmdData(c, line, lost)
    \/ \E c \in Conns, line \in LineSet : DataLine(c, line)
    \/ \E c \in Conns, line \in LineSet, lost \in {FALSE}, fault \in {"none"},
          t \in 0..MaxClock : DataTerminator(c, line, lost, fault, t)
    \/ \E c \in Conns : EndOfStream(c)

SpecOrder == InitOrder /\ [][NextOrder]_vars

(***************************************************************************)
(* Two sessions that receive the same DATA lines after different transport *)
(* commands, over a transport and a file system that do not fail.          *)
(***************************************************************************)
InitTwin == SessionInit(Conns, [k \in 1..MaxUuid |-> k], "twin")

NextTwin ==
    \/ \E c \in Conns, lost \in {FALSE} : Greet(c, lost)
    \/ \E c \in Conns, line \in LineSet, lost \in {FALSE} : CmdMailFrom(c, line, lost)
    \/ \E c \in Conns, line \in LineSet, lost \in {FALSE} : CmdRcptTo(c, line, lost)
    \/ \E c \in Conns, line \in LineSet, lost \in {FALSE} : CmdData(c, line, lost)
    \/ \E c \in Conns, line \in LineSet : DataLine(c, line)
    \/ \E c \in Conns, line \in LineSet, lost \in {FALSE}, fault \in {"none"},
          t \in 0..MaxClock : DataTerminator(c, line, lost, fault, t)

SpecTwin == InitTwin /\ [][NextTwin]_vars

(***************************************************************************)
(* Messages with a JSON object as text, over a transport and a file system *)
(* that do not fail.                                                       *)
(***************************************************************************)
InitJson == SessionInit({1}, [k \in 1..MaxUuid |-> k], "json")

NextJson ==
    \/ \E c \in Conns, lost \in {FALSE} : Greet(c, lost)
    \/ \E c \in Conns, line \in LineSet \cup {L_JSON}, lost \in {FALSE} :
          CmdData(c, line, lost)
    \/ \E c \in Conns, line \in LineSet \cup {L_JSON} : DataLine(c, line)
    \/ \E c \in Conns, line \in LineSet, lost \in {FALSE}, fault \in {"none"},
          t \in 0..MaxClock : DataTerminator(c, line, lost, fault, t)
    \/ \E c \in Conns : EndOfStream(c)

SpecJson == InitJson /\ [][NextJson]_vars

(***************************************************************************)
(* Messages whose lines read like commands, over a transport and a file    *)
(* system that do not fail.                                                *)
(***************************************************************************)
InitCmds == SessionInit({1}, [k \in 1..MaxUuid |-> k], "cmds")

NextCmds ==
    \/ \E c \in Conns, lost \in {FALSE} : Greet(c, lost)
    \/ \E c \in Conns, line \in LineSet, lost \in {FALSE} : CmdMailFrom(c, line, lost)
    \/ \E c \in Conns, line \in LineSet, lost \in {FALSE} : CmdRcptTo(c, line, lost)
    \/ \E c \in Conns, line \in LineSet, lost \in {FALSE} : CmdData(c, line, lost)
    \/ \E c \in Conns, line \in LineSet, lost \in {FALSE} : CmdQuit(c, line, lost)
    \/ \E c \in Conns, line \in LineSet : DataLine(c, line)
    \/ \E c \in Conns, line \in LineSet, lost \in {FALSE}, fault \in {"none"},
          t \in 0..MaxClock : DataTerminator(c, line, lost, fault, t)
    \/ \E c \in Conns : EndOfStream(c)

SpecCmds == InitCmds /\ [][NextCmds]_vars

(***************************************************************************)
(* The Envelope class on its own: call holds the arguments of a            *)
(* constructor call, then what the constructor did with them, then what    *)
(* from_json(to_json()) made of the Envelope.                               *)
(***************************************************************************)
\* agent ids: two that match _AGENT_ID_PATTERN as the documentation shows
\* them, one with a name of other characters, and ones with another scheme,
\* text before the scheme, no "@", a path after the name, no name
AgentIdSamples ==
    {<<"h", "t", "t", "p", "s", ":", "/", "/", "a", "/", "@", "b">>,
     <<"h", "t", "t", "p", ":", "/", "/", "a", "/", "@", "b", ".", "c">>,
     <<"h", "t", "t", "p", "s", ":", "/", "/", "a", "/", "@", "b", "!">>,
     <<"f", "t", "p", ":", "/", "/", "a", "/", "@", "b">>,
     <<"x", "h", "t", "t", "p", "s", ":", "/", "/", "a", "/", "@", "b">>,
     <<"h", "t", "t", "p", "s", ":", "/", "/", "a", "/", "b">>,
     <<"h", "t", "t", "p", "s", ":", "/", "/", "a", "/", "@", "b", "/", "c">>,
     <<"h", "t", "t", "p", "s", ":", "/", "/", "a", "/", "@">>}

\* payloads: text with characters json escapes, two dicts, and values the
\* constructor must refuse (None, a set, a dict holding a set)
PayloadSamples ==
    {PyStr(<<"h", "\"", "\\", "CR", "LF", "TAB", "xE9", "SP", "/">>),
     [kind |-> "dict", text |-> <<>>, entries |-> [intent |-> PyStr(<<"p", "i", "n", "g">>)]],
     [kind |-> "dict", text |-> <<>>,
      entries |-> [text |-> PyStr(<<"\"">>), pong |-> PyBool(TRUE), error |-> PyNone]],
     PyNone,
     [kind |-> "set", text |-> <<>>, entries |-> <<>>],
     [kind |-> "dict", text |-> <<>>,
      entries |-> [text |-> [kind |-> "set", text |-> <<>>, entries |-> <<>>]]]}

\* created_at: datetimes with and without a time zone, a str and None
CreatedAtSamples ==
    {[sec |-> s, tz |-> z] : s \in 0..MaxClock, z \in {"UTC", "naive"}}
        \cup {PyStr(isoformat(UtcNow(0))), PyNone}

InitEnvelope ==
    /\ ServerInit({}, [k \in 1..MaxUuid |-> k], "none")
    /\ queue = {}
    /\ processed = {}
    /\ sent = <<>>
    /\ returned = <<>>
    /\ queue_exists = TRUE
    /\ \E s \in AgentIdSamples, r \in {S_AGENT_A, S_AGENT_BAD}, p \in PayloadSamples,
          t \in CreatedAtSamples, c \in {None, Some(<<"c", "\"", "1">>)}, i \in {1} :
          call = [op |-> "args",
                  e |-> [id |-> i, envelope_type |-> "command", sender |-> s,
                         recipient |-> r, payload |-> p, created_at |-> t,
                         context |-> c, in_reply_to |-> c, version |-> "v0.1"],
                  out |-> [raised |-> FALSE, env |-> <<>>]]

\* Envelope(id=..., envelope_type=..., ...): the dataclass constructor
Construct ==
    /\ call.op = "args"
    /\ call' = [call EXCEPT !.op = "Envelope", !.out = EnvelopeInit(call.e)]
    /\ UNCHANGED <<pc, mail_from, recipients, in_data_mode, data_lines, raw_line,
                   responses, at_eof, trace, txn, queue, now, uuid_stream, peer,
                   processed, sent, returned, queue_exists>>

\* Envelope.from_json(e.to_json()) for the Envelope e just constructed
RoundTrip ==
    /\ call.op = "Envelope"
    /\ ~call.out.raised
    /\ call' = [op |-> "from_json", e |-> call.out.env,
                out |-> from_json(to_json(call.out.env))]
    /\ UNCHANGED <<pc, mail_from, recipients, in_data_mode, data_lines, raw_line,
                   responses, at_eof, trace, txn, queue, now, uuid_stream, peer,
                   processed, sent, returned, queue_exists>>

NextEnvelope == Construct \/ RoundTrip

SpecEnvelope == InitEnvelope /\ [][NextEnvelope]_vars

(***************************************************************************)
(* ai_agent_hub.agent_worker.  A queue file is a file as save_envelope      *)
(* writes it, with mtime its time of last modification.  sent holds the     *)
(* replies handed to send_envelope_via_smtp that it sent, returned what     *)
(* each call of process_next_envelope returned ("raised": it raised).       *)
(***************************************************************************)
\* path.read_text(): the document save_envelope wrote; a file whose write
\* did not finish holds a proper prefix of it (here all but the last
\* character); a file put into the directory by another program may be a
\* document without the member f.lacks
FileText(f) ==
    IF ~f.complete THEN SubSeq(DocText(f.doc), 1, Len(DocText(f.doc)) - 1)
    ELSE IF "lacks" \in DOMAIN f
    THEN json_dumps([DocDict(f.doc) EXCEPT
                        !.entries = [k \in DOMAIN @ \ {f.lacks} |-> @[k]]])
    ELSE DocText(f.doc)

_load_envelope(f) == from_json(FileText(f))

\* _extract_intent: the intent of a dict payload if it is a str, else None
_extract_intent(env) ==
    IF env.payload.kind = "dict" /\ DictGet(env.payload, "intent").kind = "str"
    THEN Some(DictGet(env.payload, "intent").text)
    ELSE None

\* " ".join(text.split()): what textwrap.shorten makes of a text that fits
\* the width of 100 (the texts of this model do)
RECURSIVE Shorten(_)
Shorten(text) ==
    IF Strip(text) = <<>> THEN <<>>
    ELSE IF Head(Strip(text)) \notin WS
    THEN <<Head(Strip(text))>> \o
         (IF Len(Strip(text)) > 1 /\ Strip(text)[2] \in WS /\ Shorten(Tail(Strip(text))) # <<>>
          THEN <<"SP">> ELSE <<>>) \o Shorten(Tail(Strip(text)))
    ELSE <<>>

\* the text the echo and summarize handlers work on: payload["text"] if it
\* is a str, else json.dumps(payload), str(payload) for a str payload
HandlerText(payload) ==
    IF payload.kind # "dict" THEN payload.text
    ELSE IF DictGet(payload, "text").kind = "str" THEN DictGet(payload, "text").text
    ELSE json_dumps(payload)

\* mutation of HandlerResult: the ping handler hands the intent on
HandlerResult_Forward(intent_name, env) ==
    [kind |-> "dict", text |-> <<>>,
     entries |-> [intent |-> PyStr(intent_name), pong |-> PyBool(TRUE)]]

\* INTENT_HANDLERS.get(intent_name) applied to env, and the error payload
\* when no handler is registered under the name
HandlerResult(intent_name, env) ==
    [kind |-> "dict", text |-> <<>>,
     entries |->
        CASE intent_name = <<"p", "i", "n", "g">> -> [pong |-> PyBool(TRUE)]
          [] intent_name = <<"e", "c", "h", "o">> -> [echo |-> PyStr(HandlerText(env.payload))]
          [] intent_name \in {<<"h", "e", "l", "p">>, <<"l", "i", "s", "t", "-", "i", "n", "t", "e", "n", "t", "s">>} ->
                 [intents |-> [kind |-> "list", text |-> <<>>,
                               entries |-> <<PyStr(<<"e", "c", "h", "o">>), PyStr(<<"h", "e", "l", "p">>),
                                             PyStr(<<"l", "i", "s", "t", "-", "i", "n", "t", "e", "n", "t", "s">>), PyStr(<<"p", "i", "n", "g">>),
                                             PyStr(<<"s", "u", "m", "m", "a", "r", "i", "z", "e">>)>>]]
          [] intent_name = <<"s", "u", "m", "m", "a", "r", "i", "z", "e">> ->
                 [summary |-> PyStr(Shorten(HandlerText(env.payload)))]
          [] OTHER -> [error |-> PyStr(<<"u", "n", "k", "n", "o", "w", "n">> \o <<"SP">> \o <<"i", "n", "t", "e", "n", "t">>)]]

\* mutation of _build_reply: sender and recipient are not exchanged
_build_reply_Unswapped(env, result_payload, t, uuid) ==
    EnvelopeNew("reply", env.sender, env.recipient, result_payload, env.context,
                Some(UuidText(env.id)), UtcNow(t), uuid)

\* _build_reply: Envelope.new draws the id (uuid) and reads the clock (t)
_build_reply(env, result_payload, t, uuid) ==
    EnvelopeNew("reply", env.recipient, env.sender, result_payload, env.context,
                Some(UuidText(env.id)), UtcNow(t), uuid)

\* mutation of _handle_envelope: no reply either when no handler is
\* registered for the intent
_handle_envelope_KnownOnly(env, t, uuid) ==
    IF ~_extract_intent(env).some
       \/ "error" \in DOMAIN HandlerResult(_extract_intent(env).val, env).entries
    THEN [some |-> FALSE, raised |-> FALSE, env |-> env]
    ELSE [some |-> TRUE,
          raised |-> _build_reply(env, HandlerResult(_extract_intent(env).val, env),
                                  t, uuid).raised,
          env |-> _build_reply(env, HandlerResult(_extract_intent(env).val, env),
                               t, uuid).env]

\* _handle_envelope: no reply for an envelope without intent (None or "")
_handle_envelope(env, t, uuid) ==
    IF ~_extract_intent(env).some \/ _extract_intent(env).val = <<>>
    THEN [some |-> FALSE, raised |-> FALSE, env |-> env]
    ELSE [some |-> TRUE,
          raised |-> _build_reply(env, HandlerResult(_extract_intent(env).val, env),
                                  t, uuid).raised,
          env |-> _build_reply(env, HandlerResult(_extract_intent(env).val, env),
                               t, uuid).env]

\* _find_oldest_queue_file returns f: sorted(files, key=mtime)[0], of files
\* with the same mtime whichever iterdir lists first
Oldest(f) == f \in queue /\ \A g \in queue : f.mtime <= g.mtime

\* mutation of Rename: the file is copied
Rename_Copy(f) ==
    /\ queue' = queue
    /\ processed' = {g \in processed : g.name # f.name} \cup {f}

\* file_path.rename(PROCESSED_DIR / file_path.name)
Rename(f) ==
    /\ queue' = queue \ {f}
    /\ processed' = {g \in processed : g.name # f.name} \cup {f}

\* mutation of ProcessFile: a file that cannot be loaded is moved
ProcessFile_SkipBroken(f, t, refused) ==
    LET loaded == _load_envelope(f)
        reply == _handle_envelope(loaded.env, t, uuid_stream[1])
    IN  IF loaded.raised
        THEN /\ Rename(f)
             /\ returned' = Append(returned, "raised")
             /\ UNCHANGED <<sent, now, uuid_stream>>
        ELSE IF reply.raised
        THEN /\ returned' = Append(returned, "raised")
             /\ UNCHANGED <<queue, processed, sent, now, uuid_stream>>
        ELSE /\ Rename(f)
             /\ IF reply.some
                THEN /\ now' = t
                     /\ uuid_stream' = Tail(uuid_stream)
                     /\ sent' = IF refused THEN sent ELSE Append(sent, reply.env)
                     /\ returned' = Append(returned, IF refused THEN "raised" ELSE "True")
                ELSE /\ returned' = Append(returned, "True")
                     /\ UNCHANGED <<sent, now, uuid_stream>>

\* mutation of ProcessFile: the reply is sent before the file is moved
ProcessFile_SendFirst(f, t, refused) ==
    LET loaded == _load_envelope(f)
        reply == _handle_envelope(loaded.env, t, uuid_stream[1])
    IN  IF loaded.raised \/ reply.raised
        THEN /\ returned' = Append(returned, "raised")
             /\ UNCHANGED <<queue, processed, sent, now, uuid_stream>>
        ELSE IF reply.some
             THEN /\ now' = t
                  /\ uuid_stream' = Tail(uuid_stream)
                  /\ sent' = IF refused THEN sent ELSE Append(sent, reply.env)
                  /\ returned' = Append(returned, IF refused THEN "raised" ELSE "True")
                  /\ IF refused THEN UNCHANGED <<queue, processed>> ELSE Rename(f)
             ELSE /\ Rename(f)
                  /\ returned' = Append(returned, "True")
                  /\ UNCHANGED <<sent, now, uuid_stream>>

\* process_next_envelope when _find_oldest_queue_file returned f: load,
\* handle, move, send.  refused: send_envelope_via_smtp raises
ProcessFile(f, t, refused) ==
    LET loaded == _load_envelope(f)
        reply == _handle_envelope(loaded.env, t, uuid_stream[1])
    IN  IF loaded.raised \/ reply.raised
        THEN /\ returned' = Append(returned, "raised")
             /\ UNCHANGED <<queue, processed, sent, now, uuid_stream>>
        ELSE /\ Rename(f)
             /\ IF reply.some
                THEN /\ now' = t
                     /\ uuid_stream' = Tail(uuid_stream)
                     /\ sent' = IF refused THEN sent ELSE Append(sent, reply.env)
                     /\ returned' = Append(returned, IF refused THEN "raised" ELSE "True")
                ELSE /\ returned' = Append(returned, "True")
                     /\ UNCHANGED <<sent, now, uuid_stream>>

\* one call of process_next_envelope
process_next_envelope(t, refused) ==
    /\ Len(returned) < MaxCalls
    /\ Len(uuid_stream) >= 1
    /\ t \in now..MaxClock
    /\ IF ~queue_exists \/ queue = {}
       THEN /\ returned' = Append(returned, "False")
            /\ UNCHANGED <<queue, processed, sent, now, uuid_stream>>
       ELSE \E f \in queue : Oldest(f) /\ ProcessFile(f, t, refused)
    /\ UNCHANGED <<pc, mail_from, recipients, in_data_mode, data_lines, raw_line,
                   responses, at_eof, trace, txn, peer, queue_exists, call>>

\* payloads of queued envelopes: the five intents, an unknown one, an empty
\* one, an intent that is no str, no intent, a str
WorkerPayloads ==
    {[kind |-> "dict", text |-> <<>>, entries |-> [intent |-> PyStr(i)]] :
        i \in {<<"p", "i", "n", "g">>, <<"h", "e", "l", "p">>, <<"z", "a", "p">>, <<>>}}
    \cup {[kind |-> "dict", text |-> <<>>,
           entries |-> [intent |-> PyStr(i), text |-> PyStr(<<"SP", "a", "SP", "LF", "b">>)]] :
             i \in {<<"e", "c", "h", "o">>, <<"s", "u", "m", "m", "a", "r", "i", "z", "e">>}}
    \cup {[kind |-> "dict", text |-> <<>>, entries |-> [intent |-> PyNone]],
          [kind |-> "dict", text |-> <<>>, entries |-> [text |-> PyStr(<<"h", "i">>)]],
          PyStr(<<"h", "i", "CR", "LF">>)}

\* the file save_envelope wrote for the k-th envelope of the queue
QueueFile(k, payload, context, mtime) ==
    [name |-> [stamp |-> strftime(UtcNow(0)), id |-> k],
     complete |-> TRUE,
     doc |-> to_dict(EnvelopeNew("email", UNKNOWN_AGENT, S_AGENT_A, payload, context, None,
                                 UtcNow(0), k).env),
     by |-> [conn |-> 0, txn |-> 0],
     mtime |-> mtime]

\* a queue directory of up to MaxQueue envelopes, or none: the first with
\* any of the payloads, the others with a ping or a text, all with the same
\* context; the k-th envelope was the k-th to be saved, and the modification
\* time of a file is the reading of the file system's clock at its save, so
\* files saved within one tick of that clock have the same time; the uuids
\* to come differ from the ids of the queued envelopes
InitWorker ==
    /\ ServerInit({}, [k \in 1..MaxQueue |-> MaxQueue + k], "none")
    /\ queue_exists \in BOOLEAN
    /\ \E n \in 0..MaxQueue :
         \E ps \in [1..n -> WorkerPayloads], c \in {None, Some(<<"c", "1">>)},
            ms \in [1..n -> 0..MaxClock] :
             /\ \A k \in 2..n : ps[k] \in {ps[1], PyStr(<<"h", "i", "CR", "LF">>)}
             /\ \A j \in 1..n, k \in 1..n : j < k => ms[j] <= ms[k]
             /\ queue = {QueueFile(k, ps[k], c, ms[k]) : k \in 1..n}
             /\ ~queue_exists => n = 0
    /\ processed = {}
    /\ sent = <<>>
    /\ returned = <<>>
    /\ call = [op |-> "none"]

\* calls of the worker while its SMTP server accepts every reply; the reading
\* of the clock is the one at the start (the time of a reply is the only
\* thing it determines)
NextWorker == \E t \in {now}, refused \in {FALSE} : process_next_envelope(t, refused)

SpecWorker == InitWorker /\ [][NextWorker]_vars

\* calls of the worker while its SMTP server accepts or refuses each reply
NextSend == \E t \in {now}, refused \in BOOLEAN : process_next_envelope(t, refused)

SpecSend == InitWorker /\ [][NextSend]_vars

\* the queue files for the k-th envelope that cannot be loaded: a file whose
\* write did not finish (no JSON), documents without one of the members
\* from_dict requires, a document whose sender is no agent id
BrokenFiles(k, mtime) ==
    LET f == QueueFile(k, PyStr(<<"h", "i", "CR", "LF">>), None, mtime)
    IN  {[f EXCEPT !.complete = FALSE], [f EXCEPT !.doc.from = S_AGENT_BAD]}
        \cup {[name |-> f.name, complete |-> TRUE, doc |-> f.doc, by |-> f.by,
                mtime |-> mtime, lacks |-> key] :
                   key \in {"time", "id", "type", "from", "to"}}

\* a queue directory of up to MaxQueue files one of which cannot be loaded
InitLoad ==
    /\ ServerInit({}, [k \in 1..MaxQueue |-> MaxQueue + k], "none")
    /\ queue_exists = TRUE
    /\ \E n \in 1..MaxQueue :
         \E b \in 1..n, ms \in [1..n -> 0..MaxClock],
            p \in {PyStr(<<"h", "i", "CR", "LF">>),
                   [kind |-> "dict", text |-> <<>>,
                    entries |-> [intent |-> PyStr(<<"p", "i", "n", "g">>)]]} :
             /\ \A j \in 1..n, k \in 1..n : j < k => ms[j] <= ms[k]
             /\ \E broken \in BrokenFiles(b, ms[b]) :
                    queue = {broken} \cup {QueueFile(k, p, None, ms[k]) : k \in (1..n) \ {b}}
    /\ processed = {}
    /\ sent = <<>>
    /\ returned = <<>>
    /\ call = [op |-> "none"]

SpecLoad == InitLoad /\ [][NextWorker]_vars

(***************************************************************************)
(* A reply on its way back: smtp_sender makes a message of it, the mail    *)
(* system hands the message to the LMTP server, and the server saves what  *)
(* _process_message makes of it in the queue of the worker.  call.n is the *)
(* number of sent replies that came back.                                  *)
(***************************************************************************)
\* a member of the body dict as json.dumps writes it
MimeMember(key, v) == json_dumps(PyStr(Spell(key))) \o <<":", "SP">> \o json_dumps(v)

\* _envelope_to_mime(env).as_string() as the lines of the message: the From
\* and To headers as EmailMessage writes them, the body after the blank
\* line.  The Subject, Date, Message-ID and MIME headers are lines the
\* server does not read, and the transfer encoding as_string gives the body
\* is the one get_payload(decode=True) takes off again
_envelope_to_mime(env) ==
    << <<"F", "r", "o", "m", ":", "SP">> \o env.sender
           \o <<"SP", "<", "a", "g", "e", "n", "t", "@", "l", "o", "c", "a", "l", "h", "o", "s", "t", ">", ";", "CR", "LF">>,
       <<"T", "o", ":", "SP">> \o env.recipient
           \o <<"SP", "<", "w", "o", "r", "k", "e", "r", "@", "l", "o", "c", "a", "l", "h", "o", "s", "t", ">", ";", "CR", "LF">>,
       L_BLANK,
       <<"{">> \o MimeMember("payload", env.payload) \o <<",", "SP">>
           \o MimeMember("context", IF env.context.some THEN PyStr(env.context.val) ELSE PyNone)
           \o <<",", "SP">>
           \o MimeMember("inReplyTo", IF env.in_reply_to.some THEN PyStr(env.in_reply_to.val)
                                       ELSE PyNone)
           \o <<",", "SP">> \o MimeMember("time", PyStr(isoformat(env.created_at)))
           \o <<",", "SP">> \o MimeMember("version", PyStr(Spell(env.version)))
           \o <<"}", "CR", "LF">> >>

\* the next sent reply comes back through the LMTP server at clock time t
DeliverBack(t) ==
    /\ call.n < Len(sent)
    /\ Len(uuid_stream) >= 2
    /\ t \in now..MaxClock
    /\ LET built == BuildEnvelope(_envelope_to_mime(sent[call.n + 1]), t, uuid_stream[2])
       IN  queue' = IF built.raised THEN queue
                    ELSE queue \cup {[name |-> FileName(built.env), complete |-> TRUE,
                                       doc |-> to_dict(built.env),
                                       by |-> [conn |-> 0, txn |-> call.n + 1],
                                       mtime |-> t]}
    /\ uuid_stream' = Drop(uuid_stream, 2)
    /\ now' = t
    /\ call' = [call EXCEPT !.n = @ + 1]
    /\ UNCHANGED <<pc, mail_from, recipients, in_data_mode, data_lines, raw_line,
                   responses, at_eof, trace, txn, peer, queue_exists, processed,
                   sent, returned>>

\* a queue with one envelope, of any of the payloads
InitChain ==
    /\ ServerInit({}, [k \in 1..4 |-> MaxQueue + k], "none")
    /\ queue_exists = TRUE
    /\ \E p \in WorkerPayloads
                  \cup {[kind |-> "dict", text |-> <<>>,
                         entries |-> [intent |-> PyStr(<<"l", "i", "s", "t", "-", "i", "n", "t", "e", "n", "t", "s">>)]]},
          c \in {None, Some(<<"c", "1">>)}, m \in 0..MaxClock :
             queue = {QueueFile(1, p, c, m)}
    /\ processed = {}
    /\ sent = <<>>
    /\ returned = <<>>
    /\ call = [op |-> "lmtp", n |-> 0]

NextChain ==
    \/ \E t \in {now}, refused \in {FALSE} : process_next_envelope(t, refused)
    \/ \E t \in 0..MaxClock : DeliverBack(t)

SpecChain == InitChain /\ [][NextChain]_vars

(***************************************************************************)
(* The agent-id extractor on its own: call holds the value of a From       *)
(* header (or that the message has none), then what extract_sender made    *)
(* of the message.                                                         *)
(***************************************************************************)
\* the pieces header values are made of
HeaderChunks ==
    {<<"A", "SP">>,
     <<"<">>,
     <<">">>,
     <<"h", "t", "t", "p", "s", ":", "/", "/", "a", "/", "@", "b">>,
     <<"h", "t", "t", "p">>,
     <<"s">>,
     <<"SP">>,
     <<":", "/", "/", "a", "/", "@", "b", ".", "c">>,
     <<"/", "c">>,
     <<"xE9">>}

\* the header values of up to n pieces
RECURSIVE HeaderValues(_)
HeaderValues(n) ==
    IF n = 0 THEN {<<>>}
    ELSE HeaderValues(n - 1)
             \cup {v \o c : v \in HeaderValues(n - 1), c \in HeaderChunks}

InitExtract ==
    /\ ServerInit({}, [k \in 1..MaxUuid |-> k], "none")
    /\ queue = {}
    /\ processed = {}
    /\ sent = <<>>
    /\ returned = <<>>
    /\ queue_exists = TRUE
    /\ \E absent \in BOOLEAN, v \in HeaderValues(MaxChunks) :
          /\ absent => v = <<>>
          /\ call = [op |-> "message", absent |-> absent, value |-> v,
                     out |-> [raised |-> FALSE, val |-> <<>>]]

\* extract_sender(msg) for the message with this From header and the text
\* "hi", or with the text alone
Extract ==
    /\ call.op = "message"
    /\ call' = [call EXCEPT
                  !.op = "extract_sender",
                  !.out = extract_sender(message_from_bytes(
                              IF call.absent THEN L_BLANK \o L_HI
                              ELSE <<"F", "r", "o", "m", ":", "SP">> \o call.value
                                       \o L_BLANK \o L_BLANK \o L_HI))]
    /\ UNCHANGED <<pc, mail_from, recipients, in_data_mode, data_lines, raw_line,
                   responses, at_eof, trace, txn, queue, now, uuid_stream, peer,
                   processed, sent, returned, queue_exists>>

NextExtract == Extract

SpecExtract == InitExtract /\ [][NextExtract]_vars
(***************************************************************************)
(* Properties                                                              *)
(***************************************************************************)
Last(s) == s[Len(s)]

\* connection c read a line in this step
ReadsLine(c) == Len(trace'[c]) = Len(trace[c]) + 1

\* the response resp as written while line n of the connection is handled
Caused(resp, n) == [resp EXCEPT !.line = n]

\* the number of the transaction that line n of connection c ended
TxnOf(c, n) == Cardinality({k \in 1..n : trace[c][k] = "terminator"})

\* Of the lines of DataLineSet only L_FROM and L_FROM_8BIT are header lines.
\* The header block of a message are its leading header lines; the body is
\* what follows them, after one blank line if there is one.
HeaderBlock(data) ==
    CHOOSE k \in 0..Len(data) :
        /\ \A i \in 1..k : data[i] \in {L_FROM, L_FROM_8BIT}
        /\ k < Len(data) => data[k + 1] \notin {L_FROM, L_FROM_8BIT}

AfterHeaders(rest) ==
    IF rest # <<>> /\ rest[1] = L_BLANK THEN Tail(rest) ELSE rest

BodyText(data) == PyStr(Decode(Join(AfterHeaders(Drop(data, HeaderBlock(data))))))

\* a message none of whose header lines holds a raw 8-bit byte
WellFormed(data) == \A i \in 1..HeaderBlock(data) : data[i] = L_FROM

\* the number of lines stored since the last DATA command
SinceData(tr) ==
    CHOOSE k \in 0..Len(tr) :
        /\ \A i \in (Len(tr) - k + 1)..Len(tr) : tr[i] = "data"
        /\ k < Len(tr) => tr[Len(tr) - k] # "data"

\* C1 (the claim as stated, refuted): whenever a terminator was answered
\* with "451", the queue directory holds no file, complete or partial,
\* written by that transaction.
C1_NoFileOn451 ==
    \A c \in Conns : \A i \in 1..Len(responses[c]) :
        responses[c][i].text = R451.text
            => \A f \in queue :
                   f.by # [conn |-> c, txn |-> TxnOf(c, responses[c][i].line)]

C3_Responses(c, k) == {i \in 1..Len(responses[c]) : responses[c][i].line = k}

C3_OneResponsePerLine ==
    \A c \in Conns :
        /\ \A i, j \in 1..Len(responses[c]) :
               i < j => responses[c][i].line < responses[c][j].line
        /\ \A i \in 1..Len(responses[c]) : responses[c][i].line <= Len(trace[c])
        /\ \A k \in 1..Len(trace[c]) :
               IF trace[c][k] = "data" \/ (k = Len(trace[c]) /\ pc[c] = "crashed")
               THEN C3_Responses(c, k) = {}
               ELSE /\ Cardinality(C3_Responses(c, k)) = 1
                    /\ trace[c][k] = "terminator"
                           => \A i \in C3_Responses(c, k) :
                                  responses[c][i].text \in {"250 OK queued as", R451.text}

C3_Witness ==
    \E c \in Conns :
        /\ pc[c] = "run"
        /\ Len(trace[c]) = 5
        /\ trace[c][1] = "DATA" /\ trace[c][2] = "data" /\ trace[c][3] = "data"
        /\ trace[c][4] = "terminator" /\ trace[c][5] = "unknown"
        /\ Len(responses[c]) = 4

\* C4: when the peer closes the connection, in COMMAND or in DATA mode, the
\* session ends; that step writes no response and leaves the queue
\* directory as it is, so the lines buffered in an unterminated DATA block
\* are not processed; and a closed session reads no line, writes no response
\* and saves no file any more.
C4_EofEndsSilently ==
    [][\A c \in Conns :
          /\ (pc[c] = "run" /\ pc'[c] # "run" /\ ~ReadsLine(c))
                 => /\ pc'[c] = "closed"
                    /\ responses'[c] = responses[c]
                    /\ queue' = queue
                    /\ txn'[c] = txn[c]
          /\ pc[c] = "closed"
                 => /\ pc'[c] = "closed"
                    /\ trace'[c] = trace[c]
                    /\ responses'[c] = responses[c]
                    /\ {f \in queue' : f.by.conn = c} = {f \in queue : f.by.conn = c}]_vars

C4_Witness ==
    \E c \in Conns :
        /\ pc[c] = "closed"
        /\ trace[c] = <<"DATA", "data", "data">>
        /\ Len(responses[c]) = 2
        /\ queue = {}

\* C5: in DATA mode a line that is exactly "." with CRLF, LF or no line
\* ending ends DATA mode and is not stored; every other line is stored and
\* DATA mode goes on, a line beginning with ".." without its first "." (so
\* "..CRLF" is stored as ".CRLF"); a file saved for the message has as
\* payload the body text of the stored lines concatenated in their order.
C5_DotHandling ==
    [][\A c \in Conns :
          (in_data_mode[c] /\ ReadsLine(c))
              => /\ raw_line'[c] \in {<<".", "CR", "LF">>, <<".", "LF">>, <<".">>}
                     => /\ ~in_data_mode'[c]
                        /\ data_lines'[c] = <<>>
                        /\ \A f \in queue' \ queue :
                               f.doc.payload = BodyText(data_lines[c])
                 /\ raw_line'[c] \notin {<<".", "CR", "LF">>, <<".", "LF">>, <<".">>}
                     => /\ in_data_mode'[c]
                        /\ queue' = queue
                        /\ data_lines'[c] =
                               Append(data_lines[c],
                                      IF raw_line'[c] = <<".", ".", "CR", "LF">>
                                      THEN <<".", "CR", "LF">>
                                      ELSE raw_line'[c])]_vars

C5_Witness ==
    \E c \in Conns :
        /\ raw_line[c] = <<".">>
        /\ ~in_data_mode[c]
        /\ \E f \in queue :
               /\ f.complete
               /\ f.doc.payload = PyStr(<<".", "CR", "LF", "h", "i", "CR", "LF">>)

\* C6: after a terminator that was answered, with "250 OK queued as" or with
\* "451", the connection is open and the session in its initial state: mode
\* COMMAND, mail_from absent, recipients empty, data buffer empty.  The data
\* buffer of a transaction holds only the lines read since its DATA command,
\* and a file saved at a terminator is that transaction's and has the body
\* text of these lines as its payload.
C6_ResetAfterTerminator ==
    [][\A c \in Conns :
          /\ in_data_mode[c]
                 => /\ Len(data_lines[c]) = SinceData(trace[c])
                    /\ SinceData(trace[c]) < Len(trace[c])
                    /\ trace[c][Len(trace[c]) - SinceData(trace[c])] = "DATA"
          /\ (in_data_mode[c] /\ ReadsLine(c) /\ raw_line'[c] \in Terminators
                  /\ pc'[c] # "crashed")
                 => /\ pc'[c] = "run"
                    /\ Len(responses'[c]) = Len(responses[c]) + 1
                    /\ Last(responses'[c]).text \in {"250 OK queued as", R451.text}
                    /\ Last(responses'[c]).line = Len(trace'[c])
                    /\ ~in_data_mode'[c]
                    /\ mail_from'[c] = None
                    /\ recipients'[c] = <<>>
                    /\ data_lines'[c] = <<>>
                    /\ \A f \in queue' \ queue :
                           /\ f.by = [conn |-> c, txn |-> txn'[c]]
                           /\ f.doc.payload = BodyText(data_lines[c])]_vars

C6_Witness ==
    \E c \in Conns :
        /\ pc[c] = "run"
        /\ txn[c] = 2
        /\ Len(responses[c]) = 5
        /\ responses[c][3].text = R451.text
        /\ responses[c][5].text = "250 OK queued as"
        /\ mail_from[c] = None /\ recipients[c] = <<>> /\ data_lines[c] = <<>>
        /\ \E f \in queue :
               f.by = [conn |-> c, txn |-> 2] /\ f.complete /\ f.doc.payload = PyStr(<<>>)

\* C7: the mode is always COMMAND or DATA.  The session goes from COMMAND
\* to DATA mode only by reading a line whose trimmed content is DATA in
\* any case (of the lines of CommandLineSet: "DATA" and " data "), and such
\* a line, if the transport is not lost, always does so; it is answered with
\* "354 Start mail input; end with <CRLF>.<CRLF>" and the data buffer is
\* empty on entry.  LHLO, MAIL FROM:, RCPT TO: and unrecognised lines leave
\* the mode COMMAND.
C7_DataEntry ==
    [][\A c \in Conns :
          /\ in_data_mode[c] \in BOOLEAN
          /\ in_data_mode'[c] \in BOOLEAN
          /\ (~in_data_mode[c] /\ in_data_mode'[c])
                 => /\ ReadsLine(c)
                    /\ raw_line'[c] \in {L_DATA, L_data}
                    /\ responses'[c] =
                           Append(responses[c], Caused(R354, Len(trace'[c])))
                    /\ data_lines'[c] = <<>>
          /\ (~in_data_mode[c] /\ ReadsLine(c) /\ raw_line'[c] \in {L_DATA, L_data}
                  /\ pc'[c] # "crashed")
                 => in_data_mode'[c]
          /\ (~in_data_mode[c] /\ ReadsLine(c)
                  /\ raw_line'[c] \in {L_LHLO, L_MAIL, L_RCPT, L_NOOP})
                 => ~in_data_mode'[c]]_vars

C7_Witness ==
    \E c \in Conns :
        /\ in_data_mode[c]
        /\ raw_line[c] = L_data
        /\ mail_from[c] # None
        /\ recipients[c] # <<>>
        /\ data_lines[c] = <<>>
        /\ Last(responses[c]).text = R354.text

\* C8: in COMMAND mode a line that is none of LHLO, MAIL FROM:, RCPT TO:,
\* DATA or QUIT is, if the transport is not lost, answered with "500 Unknown
\* command"; the connection stays open, the mode COMMAND, mail_from,
\* recipients and the data buffer are unchanged and the queue directory is
\* unchanged.
C8_UnknownCommand ==
    [][\A c \in Conns :
          (~in_data_mode[c] /\ ReadsLine(c) /\ pc'[c] # "crashed"
              /\ raw_line'[c] \in
                     CommandLineSet \ {L_LHLO, L_MAIL, L_RCPT, L_DATA, L_data, L_QUIT})
              => /\ responses'[c] =
                        Append(responses[c], Caused(R500, Len(trace'[c])))
                 /\ pc'[c] = "run"
                 /\ ~in_data_mode'[c]
                 /\ mail_from'[c] = mail_from[c]
                 /\ recipients'[c] = recipients[c]
                 /\ data_lines'[c] = data_lines[c]
                 /\ queue' = queue]_vars

C8_Witness ==
    \E c \in Conns :
        /\ pc[c] = "run"
        /\ raw_line[c] = L_NOOP
        /\ Last(responses[c]).text = R500.text
        /\ mail_from[c] # None
        /\ recipients[c] # <<>>

\* C9: a QUIT line read in COMMAND mode is, if the transport is not lost,
\* answered with "221 Bye" and the connection is closed; "221 Bye" is the
\* last response of a connection, the connection is closed once it is
\* written, and the line it answers is the last line the connection reads.
C9_QuitCloses ==
    \A c \in Conns :
        /\ \A i \in 1..Len(responses[c]) :
               responses[c][i].text = R221.text
                   => /\ i = Len(responses[c])
                      /\ pc[c] = "closed"
                      /\ responses[c][i].line = Len(trace[c])
        /\ (trace[c] # <<>> /\ Last(trace[c]) # "data"
                /\ raw_line[c] = L_QUIT)
               => \/ pc[c] = "crashed"
                  \/ /\ pc[c] = "closed"
                     /\ Last(responses[c]) = Caused(R221, Len(trace[c]))

C9_Witness ==
    \E c \in Conns :
        /\ pc[c] = "closed"
        /\ Len(trace[c]) >= 3
        /\ raw_line[c] = L_QUIT
        /\ Last(responses[c]).text = R221.text

\* C10: on every accepted connection the greeting "220 ... LMTP server
\* ready" is the first response, and it is written before any input line is
\* read: a connection that has read a line or has any response has the
\* greeting as its first response, caused by no input line.
C10_GreetingFirst ==
    \A c \in Conns :
        (trace[c] # <<>> \/ responses[c] # <<>>)
            => /\ responses[c] # <<>>
               /\ responses[c][1] = R220
               /\ \A i \in 2..Len(responses[c]) :
                      responses[c][i].text # R220.text /\ responses[c][i].line > 0

C10_Witness ==
    \E c \in Conns :
        /\ Len(trace[c]) >= 2
        /\ Len(responses[c]) >= 3
        /\ responses[c][1] = R220

\* the responses "250 OK queued as" of connection c
Queued(c) == {i \in 1..Len(responses[c]) : responses[c][i].text = "250 OK queued as"}

\* C11: however the steps of concurrent sessions interleave, the files of
\* the queue directory have different names, every message answered with
\* "250 OK queued as" still has its complete file (no save replaced it),
\* and the directory holds as many files as such responses were given on
\* all connections together.
C11_NoCollision ==
    /\ \A f, g \in queue : f.name = g.name => f = g
    /\ \A c \in Conns : \A i \in Queued(c) :
           \E f \in queue :
               /\ f.by = [conn |-> c, txn |-> TxnOf(c, responses[c][i].line)]
               /\ f.complete
    /\ Cardinality(queue) =
           Cardinality(UNION {{<<c, i>> : i \in Queued(c)} : c \in Conns})

C11_Witness ==
    \E f, g \in queue :
        /\ f.by.conn # g.by.conn
        /\ f.name.stamp = g.name.stamp
        /\ f.doc.payload = g.doc.payload
        /\ \A c \in Conns : Queued(c) # {}

\* the files connection c has written
FilesOf(dir, c) == {f \in dir : f.by.conn = c}

StampOrd(ch) ==
    CHOOSE n \in 1..12 : <<"0", "1", "2", "3", "4", "5", "6", "7", "8", "9", "T", "Z">>[n] = ch

\* s sorts before t
LexLess(s, t) ==
    \/ Len(s) < Len(t) /\ \A i \in 1..Len(s) : s[i] = t[i]
    \/ \E k \in 1..Len(s) :
           /\ k <= Len(t)
           /\ \A i \in 1..(k - 1) : s[i] = t[i]
           /\ StampOrd(s[k]) < StampOrd(t[k])

\* the file name a sorts before the file name b: "<stamp>_<id>.json"
NameLess(a, b) ==
    \/ LexLess(a.stamp, b.stamp)
    \/ a.stamp = b.stamp /\ a.id < b.id

\* C13 (the claim as stated, refuted): of two files save_envelope wrote,
\* the one written for the earlier transaction has the name that sorts
\* first, also when both were created in the same second.
C13_NameOrder ==
    \A f, g \in queue :
        (f.by.conn = g.by.conn /\ f.by.txn < g.by.txn) => NameLess(f.name, g.name)

\* the fields of a saved document that the claim compares
Routing(doc) ==
    [from |-> doc.from, to |-> doc.to, type |-> doc.type, payload |-> doc.payload,
     context |-> doc.context, inReplyTo |-> doc.inReplyTo]

\* C14: two sessions that received the same DATA lines, after different or
\* no MAIL FROM / RCPT TO lines, got the same response to the terminator,
\* and either both saved nothing or both saved one envelope, the two with
\* the same sender, recipient, type, payload, context and in_reply_to.
C14_TransportIgnored ==
    (txn[1] = 1 /\ txn[2] = 1)
        => /\ Last(responses[1]).text = Last(responses[2]).text
           /\ Cardinality(FilesOf(queue, 1)) = Cardinality(FilesOf(queue, 2))
           /\ Cardinality(FilesOf(queue, 1)) <= 1
           /\ \A f \in FilesOf(queue, 1), g \in FilesOf(queue, 2) :
                  Routing(f.doc) = Routing(g.doc)

C14_Witness ==
    /\ txn[1] = 1 /\ txn[2] = 1
    /\ trace[1] = <<"MAIL FROM", "RCPT TO", "DATA", "data", "data", "terminator">>
    /\ trace[2] = <<"DATA", "data", "data", "terminator">>
    /\ \E f \in FilesOf(queue, 1), g \in FilesOf(queue, 2) :
           /\ f.doc.from # UNKNOWN_AGENT
           /\ g.doc.from = f.doc.from
           /\ f.doc.payload = PyStr(<<"h", "i", "CR", "LF">>)

\* C15 (the claim as stated, refuted): a message whose text body is the
\* JSON object {"context":"c1","payload":"p"} is saved as an Envelope with
\* context "c1" and, the object having a nested payload, with payload "p".
C15_JsonMetadata ==
    [][\A c \in Conns :
          (in_data_mode[c] /\ ReadsLine(c) /\ raw_line'[c] \in Terminators
              /\ data_lines[c] \in {<<L_BLANK, L_JSON>>, <<L_FROM, L_BLANK, L_JSON>>})
              => \E f \in queue' :
                     /\ f \notin queue
                     /\ f.doc.context = Some(<<"c", "1">>)
                     /\ f.doc.payload = PyStr(<<"p">>)]_vars

\* a message whose header lines are followed by text without the blank
\* line that separates headers from body
MissingSeparator(data) ==
    /\ HeaderBlock(data) >= 1
    /\ HeaderBlock(data) < Len(data)
    /\ data[HeaderBlock(data) + 1] # L_BLANK

\* C16 (the claim as stated, refuted): a DATA block whose content is a
\* malformed MIME message, here header lines followed by text with no
\* separating blank line, is answered with "451" and adds no file to the
\* queue directory.
C16_MalformedRejected ==
    [][\A c \in Conns :
          (peer[c] = "e2e" /\ peer'[c] = "done" /\ MissingSeparator(data_lines[c]))
              => /\ Last(responses'[c]).text = R451.text
                 /\ queue' = queue]_vars

\* the shape scheme://host/@name of an agent id: scheme http or https, a
\* host without "/", a name of letters, digits, "_", "." and "-", and
\* nothing after the name
AgentIdShape(s) ==
    \E scheme \in {S_HTTP, S_HTTP \o <<"s">>}, k \in 1..Len(s) :
        /\ StartsWith(s, scheme \o <<":", "/", "/">>)
        /\ k > Len(scheme) + 4
        /\ \A i \in (Len(scheme) + 4)..(k - 1) : s[i] # "/"
        /\ HasAt(s, k, <<"/", "@">>)
        /\ k + 2 <= Len(s)
        /\ \A i \in (k + 2)..Len(s) :
               s[i] \in Letters \cup Digits \cup {"_", ".", "-"}

\* a str or a JSON object: a dict none of whose values is a Python value
\* JSON has no form for
StrOrJsonObject(v) ==
    \/ v.kind = "str"
    \/ v.kind = "dict" /\ \A k \in DOMAIN v.entries : v.entries[k].kind # "set"

\* C17 (the claim as stated, refuted): the constructor raises when sender or
\* recipient does not have the shape scheme://host/@name, when payload is
\* neither a str nor a JSON object or when created_at is no datetime; with
\* none of these it does not raise, and a created_at without time zone is
\* the same time in UTC afterwards.
C17_ConstructionRejects ==
    call.op = "Envelope"
        => IF /\ AgentIdShape(call.e.sender)
              /\ AgentIdShape(call.e.recipient)
              /\ StrOrJsonObject(call.e.payload)
              /\ "sec" \in DOMAIN call.e.created_at
           THEN /\ ~call.out.raised
                /\ call.out.env.created_at = [call.e.created_at EXCEPT !.tz = "UTC"]
           ELSE call.out.raised

C19_ReplyFields ==
    [][sent' # sent
          => \E f \in queue \ queue' :
                 /\ sent' = Append(sent, Last(sent'))
                 /\ Last(sent').sender = f.doc.to
                 /\ Last(sent').recipient = f.doc.from
                 /\ Last(sent').in_reply_to = Some(UuidText(f.doc.id))
                 /\ Last(sent').context = f.doc.context
                 /\ Last(sent').envelope_type = "reply"
                 /\ Last(sent').id # f.doc.id]_vars

C19_Witness ==
    /\ Len(sent) = 2
    /\ sent[1].in_reply_to # sent[2].in_reply_to
    /\ sent[1].context = Some(<<"c", "1">>)
    /\ sent[1].sender = S_AGENT_A
    /\ sent[1].recipient = UNKNOWN_AGENT

\* C20: a call of process_next_envelope on a queue directory that holds
\* envelope files returns True and moves exactly one file to the processed
\* directory under its name, every other queue file staying in place; on an
\* empty or missing queue directory it returns False, moves nothing and
\* sends nothing.
C20_ProcessNext ==
    [][returned' # returned
          => IF queue_exists /\ queue # {}
             THEN /\ returned' = Append(returned, "True")
                  /\ \E f \in queue :
                         /\ queue' = queue \ {f}
                         /\ f \notin processed
                         /\ processed' = processed \cup {f}
             ELSE /\ returned' = Append(returned, "False")
                  /\ queue' = queue
                  /\ processed' = processed
                  /\ sent' = sent]_vars

C20_Witness ==
    /\ Len(returned) >= 3
    /\ SubSeq(returned, 1, 3) = <<"True", "True", "False">>
    /\ queue = {}
    /\ Cardinality(processed) = 2
    /\ Len(sent) = 1

\* the names under which a handler is registered
Registered ==
    {<<"p", "i", "n", "g">>, <<"e", "c", "h", "o">>, <<"h", "e", "l", "p">>, <<"l", "i", "s", "t", "-", "i", "n", "t", "e", "n", "t", "s">>, <<"s", "u", "m", "m", "a", "r", "i", "z", "e">>}

\* the payload {"error": "unknown intent"}
UnknownIntent ==
    [kind |-> "dict", text |-> <<>>,
     entries |-> [error |-> PyStr(<<"u", "n", "k", "n", "o", "w", "n">> \o <<"SP">> \o <<"i", "n", "t", "e", "n", "t">>)]]

\* the payload is an object whose intent is a str
StrIntent(payload) ==
    /\ payload.kind = "dict"
    /\ "intent" \in DOMAIN payload.entries
    /\ payload.entries.intent.kind = "str"

\* the step sends exactly one reply, for the moved file f, with the payload
\* the intent of f asks for
OneReply(f) ==
    /\ Len(sent') = Len(sent) + 1
    /\ sent' = Append(sent, Last(sent'))
    /\ Last(sent').in_reply_to = Some(UuidText(f.doc.id))
    /\ Last(sent').payload =
           IF f.doc.payload.entries.intent.text \in Registered
           THEN HandlerResult(f.doc.payload.entries.intent.text, [payload |-> f.doc.payload])
           ELSE UnknownIntent
    /\ f.doc.payload.entries.intent.text \in Registered
           => "error" \notin DOMAIN Last(sent').payload.entries

\* C21 (the claim as stated, refuted): in the step that moves the file of an
\* envelope to processed the worker sends exactly one reply if the payload
\* is an object with a str intent, and none otherwise.
C21_ReplyPerStrIntent ==
    [][\A f \in queue \ queue' :
          IF StrIntent(f.doc.payload) THEN OneReply(f) ELSE sent' = sent]_vars

\* C21 (amended): in the step that moves the file of an envelope to processed
\* the worker sends exactly one reply if the payload is an object with a
\* non-empty str intent, and none otherwise, an empty intent included; the
\* reply payload is {"error": "unknown intent"} when no handler is registered
\* for the intent and the result of the handler when one is.
C21_ReplyPerIntent ==
    [][\A f \in queue \ queue' :
          IF StrIntent(f.doc.payload) /\ f.doc.payload.entries.intent.text # <<>>
          THEN OneReply(f) ELSE sent' = sent]_vars

C21_Witness ==
    /\ Len(sent) = 1
    /\ sent[1].payload = UnknownIntent
    /\ Cardinality(processed) = 2
    /\ \E f \in processed : ~StrIntent(f.doc.payload)

\* C22 (the claim as stated, refuted): extract_sender never raises; it
\* returns https://unknown/@unknown for a message without From header and
\* for a From header that holds no substring of the shape
\* scheme://host/@name, and the first such substring of the header
\* otherwise.
C22_ExtractorTotal ==
    call.op = "extract_sender"
        => /\ ~call.out.raised
           /\ call.out.val =
                  IF call.absent \/ ~AgentIdSearch(call.value, 1).some
                  THEN UNKNOWN_AGENT
                  ELSE AgentIdSearch(call.value, 1).val

\* C23: in DATA mode a line other than the terminator, also one that reads
\* like a command (QUIT, DATA, LHLO, MAIL FROM:, RCPT TO:, NOOP), is appended
\* to the data buffer, gets no response, does not close the connection and
\* leaves DATA mode, mail_from and recipients as they are.
C23_CommandsAreData ==
    [][\A c \in Conns :
          (in_data_mode[c] /\ ReadsLine(c) /\ raw_line'[c] \notin Terminators)
              => /\ data_lines'[c] = Append(data_lines[c], raw_line'[c])
                 /\ responses'[c] = responses[c]
                 /\ pc'[c] = "run"
                 /\ in_data_mode'[c]
                 /\ mail_from'[c] = mail_from[c]
                 /\ recipients'[c] = recipients[c]]_vars

C23_Witness ==
    \E c \in Conns :
        /\ in_data_mode[c]
        /\ pc[c] = "run"
        /\ data_lines[c] = <<L_QUIT, L_DATA>>
        /\ mail_from[c] # None
        /\ recipients[c] # <<>>
        /\ Len(responses[c]) = 4

\* C24: repeated calls of process_next_envelope take the queued envelopes
\* oldest first: no file is moved to processed while a file that was saved
\* before it is still in the queue.
C24_OldestFirst ==
    [][\A f \in queue \ queue' :
          \A g \in queue' : ~(g.name.id < f.name.id)]_vars

\* C25: over the calls of one worker, calls in which sending the reply raises
\* included, each queued envelope is handled at most once and at most one
\* reply is sent for it: a call that handles an envelope moves its file to
\* processed, also when the sending raises afterwards; a file in processed
\* stays there and is not in the queue again; a call sends at most one reply,
\* for the file it moves; no two replies are in reply to the same envelope.
C25_AtMostOnce ==
    /\ [](\A i \in 1..Len(sent), j \in 1..Len(sent) :
              sent[i].in_reply_to = sent[j].in_reply_to => i = j)
    /\ [][/\ \A f \in processed : f \in processed' /\ f \notin queue'
          /\ \A f \in queue \ queue' : f \in processed' /\ f \notin processed
          /\ (returned' # returned /\ Last(returned') = "raised")
                 => sent' = sent /\ Cardinality(queue \ queue') = 1
          /\ sent' # sent
                 => /\ Len(sent') = Len(sent) + 1
                    /\ sent' = Append(sent, Last(sent'))
                    /\ \E f \in queue \ queue' :
                           Last(sent').in_reply_to = Some(UuidText(f.doc.id))]_vars

C25_Witness ==
    /\ returned = <<"raised", "True">>
    /\ queue = {}
    /\ Cardinality(processed) = 2
    /\ Len(sent) = 1
    /\ \E f \in processed : sent[1].in_reply_to = Some(UuidText(f.doc.id)) /\ f.name.id = 2

\* C26: if the oldest queue file cannot be loaded as an Envelope (no JSON, a
\* required member missing, a validation error), the call of
\* process_next_envelope raises, the queue and processed directories stay as
\* they are and no reply is sent, so the same file is the oldest at the next
\* call.
C26_LoadRaises ==
    [][(/\ returned' # returned
        /\ queue # {}
        /\ \A f \in queue : Oldest(f) => _load_envelope(f).raised)
           => /\ returned' = Append(returned, "raised")
              /\ queue' = queue
              /\ processed' = processed
              /\ sent' = sent]_vars

C26_Witness ==
    /\ returned = <<"raised", "raised", "raised">>
    /\ Cardinality(queue) = 2
    /\ processed = {}
    /\ sent = <<>>
    /\ \E f \in queue, g \in queue :
           /\ f.mtime < g.mtime
           /\ "lacks" \in DOMAIN f
           /\ ~_load_envelope(g).raised

\* C27: reply chains end: no payload of a reply of the worker (the result of
\* a handler or the error payload) has an "intent" key, and the call of
\* process_next_envelope that handles a reply that came back through the
\* LMTP server returns True without sending a reply.
C27_ChainsEnd ==
    /\ [](\A i \in 1..Len(sent) :
              sent[i].payload.kind = "dict" /\ "intent" \notin DOMAIN sent[i].payload.entries)
    /\ [][\A f \in queue \ queue' :
              f.by.txn > 0 => sent' = sent /\ returned' = Append(returned, "True")]_vars

C27_Witness ==
    /\ returned = <<"True", "True", "False">>
    /\ Len(sent) = 1
    /\ "echo" \in DOMAIN sent[1].payload.entries
    /\ call.n = 1
    /\ queue = {}
    /\ \E f \in processed :
           /\ f.by.txn = 1
           /\ f.doc.from = S_AGENT_A
           /\ f.doc.payload.kind = "str"
           /\ Last(f.doc.payload.text) = "LF"
           /\ ~f.doc.context.some
====
